---- MODULE Spec2Model ----
(***************************************************************************)
(* A model of javascript-winwheel: the Winwheel's segment list and its     *)
(* sizing (Winwheel.js), the rotation normalisation and indicated-segment  *)
(* lookup (Winwheel.js) and the animation planner (Animation.js).          *)
(*                                                                         *)
(* Angles are JavaScript numbers in the source.  Here an angle is an       *)
(* integer count of 1/Unit degrees, Unit being the least common multiple   *)
(* of 1..MaxSegments, so that every division updateSegmentSizes performs   *)
(* (arcLeft / (numSegments - numSet)) is exact: the model computes with    *)
(* exact rationals, not with rounded doubles.                              *)
(*                                                                         *)
(* A nullable option is <<>> when it is null and <<v>> when it holds v.    *)
(***************************************************************************)
EXTENDS Integers, Sequences, FiniteSets, TLC

VARIABLES
    segments,       \* Winwheel.segments: the ordered Segment objects
    numSegments,    \* Winwheel.options.numSegments
    rotationAngle,  \* Winwheel.options.rotationAngle (1/Unit degrees)
    pointerAngle,   \* Winwheel.options.pointerAngle (1/Unit degrees)
    animation,      \* Winwheel.animation.options (Animation.options)
    stopAngleInt,   \* Animation._stopAngle, <<>> while it is undefined
    supplied,       \* history: the Animation option keys the caller has set
    tween,          \* the tween handle startAnimation keeps in Winwheel.tween
    wheelOptions,   \* Winwheel.options: the geometry, draw and text options
    ctx,            \* Winwheel.ctx, the canvas 2D context; <<>> when there is none
    winwheelAlreadyDrawn,      \* Winwheel.winwheelAlreadyDrawn
    lastSoundTriggerNumber,    \* Winwheel._lastSoundTriggerNumber, <<>> until it exists
    loading,        \* the Image objects whose load is in flight
    calls,          \* history: the callbacks and steps the handlers have run
    lastCall,       \* history: the call the last step made, with its arguments
    ret             \* history: what that call returned

vars == <<segments, numSegments, rotationAngle, pointerAngle, animation,
          stopAngleInt, supplied, tween, wheelOptions, ctx, winwheelAlreadyDrawn,
          lastSoundTriggerNumber, loading, calls, lastCall, ret>>

----------------------------------------------------------------------------
(* Bounds *)

MaxSegments == 4    \* numSegments never grows beyond this
MaxTurns == 2       \* rotation angles span MaxTurns turns and a half, either way
MaxSpins == 2       \* the caller asks for 0..MaxSpins spins
MaxRuns == 1        \* startAnimation calls per behaviour
MaxDepth == 2       \* a draw begins with fewer than this many save()s unrestored
MaxShown == 4       \* a tick begins with at most this many entries on the canvas
MaxCalls == 2       \* stopAnimation is called while callbackFinished ran fewer times
MaxStale == 1       \* changeImage is called while fewer replaced Images are loading
MaxPins == 4        \* a wheel has at most this many pins

----------------------------------------------------------------------------
(* Numbers *)

RECURSIVE Gcd(_, _)
Gcd(a, b) == IF b = 0 THEN a ELSE Gcd(b, a % b)

RECURSIVE LcmUpTo(_)
LcmUpTo(n) == IF n <= 1 THEN 1 ELSE (LcmUpTo(n - 1) * n) \div Gcd(LcmUpTo(n - 1), n)

\* The number of model units in one degree.
Unit == LcmUpTo(MaxSegments)

\* d whole degrees.
Deg(d) == d * Unit

\* Math.floor and Math.ceil on a number of 1/Unit degrees.
Floor(x) == (x \div Unit) * Unit
Ceil(x) == -Floor(-x)

\* Math.abs
Abs(x) == IF x < 0 THEN -x ELSE x

\* JavaScript's Infinity, the result of dividing a positive number by zero:
\* larger than every angle of the model.
Infinity == Deg(360) * 1000

\* arcLeft / n, n >= 0; exact for 1 <= n <= MaxSegments by the choice of Unit.
Divide(x, n) == IF n = 0 THEN Infinity ELSE x \div n

Null == <<>>
Some(v) == <<v>>
isNil(x) == x = Null

----------------------------------------------------------------------------
(* Segment.js *)

\* Segment.defaultOptions, the text and image keys the model reads.  A string
\* is the sequence of its characters, '' being <<>>; a text is the sequence of
\* its lines (the split on '\n'), the empty text being the one without lines.
SegmentDefaultOptions ==
    [text            |-> <<>>,
     textOrientation |-> Null,
     textAlignment   |-> Null,
     textDirection   |-> Null,
     image           |-> Null,
     imageDirection  |-> Null,
     imgData         |-> Null]

\* new Segment(options) for options holding the size: the options defaulted,
\* and the two angles the code sets.  id is the object's identity.
Segment(id, size) ==
    [id |-> id, size |-> size, startAngle |-> 0, endAngle |-> 0,
     text            |-> SegmentDefaultOptions.text,
     textOrientation |-> SegmentDefaultOptions.textOrientation,
     textAlignment   |-> SegmentDefaultOptions.textAlignment,
     textDirection   |-> SegmentDefaultOptions.textDirection,
     image           |-> SegmentDefaultOptions.image,
     imageDirection  |-> SegmentDefaultOptions.imageDirection,
     imgData         |-> SegmentDefaultOptions.imgData]

\* Segment.setAngle
setAngle(segment, startAngle, endAngle) ==
    [segment EXCEPT !.startAngle = startAngle, !.endAngle = endAngle]

\* JavaScript truthiness of segment.options.size: null and 0 are falsy.
SizeSet(segment) == segment.size # Null /\ segment.size[1] # 0

----------------------------------------------------------------------------
(* Winwheel.js: segment sizing *)

RECURSIVE ArcUsed(_, _)
ArcUsed(segs, n) ==
    IF n = 0 THEN 0
    ELSE ArcUsed(segs, n - 1) + (IF SizeSet(segs[n]) THEN segs[n].size[1] ELSE 0)

NumSet(segs) == Cardinality({i \in 1..Len(segs) : SizeSet(segs[i])})

DegreesEach(segs, num) ==
    LET arcLeft == Deg(360) - ArcUsed(segs, Len(segs))
    IN  IF arcLeft > 0 THEN Divide(arcLeft, num - NumSet(segs)) ELSE 0

\* currentDegree after the first n segments
RECURSIVE CurrentDegree(_, _, _)
CurrentDegree(segs, num, n) ==
    IF n = 0 THEN 0
    ELSE CurrentDegree(segs, num, n - 1)
         + (IF SizeSet(segs[n]) THEN segs[n].size[1] ELSE DegreesEach(segs, num))

updateSegmentSizes_sharesAmongAll(segs, num) ==
    IF segs = <<>> THEN segs
    ELSE LET each == IF Deg(360) - ArcUsed(segs, Len(segs)) > 0
                     THEN Divide(Deg(360) - ArcUsed(segs, Len(segs)), num) ELSE 0
             RECURSIVE cur(_)
             cur(n) == IF n = 0 THEN 0
                       ELSE cur(n - 1) + (IF SizeSet(segs[n]) THEN segs[n].size[1] ELSE each)
         IN  [i \in 1..Len(segs) |-> setAngle(segs[i], cur(i - 1), cur(i))]

\* Winwheel.updateSegmentSizes, on the segment list segs with
\* options.numSegments = num.
updateSegmentSizes(segs, num) ==
    IF segs = <<>> THEN segs
    ELSE [i \in 1..Len(segs) |->
            setAngle(segs[i], CurrentDegree(segs, num, i - 1), CurrentDegree(segs, num, i))]

\* Winwheel.initiateSegments: numSegments Segments, the i-th with the size
\* options.segments[i] gives (null when there is none), then sized.
initiateSegments(sizes) ==
    updateSegmentSizes([i \in 1..Len(sizes) |-> Segment(i, sizes[i])], Len(sizes))

\* The identity of a new Segment object: one no segment of the wheel has.
NewId(segs) ==
    CHOOSE i \in 1..(Len(segs) + 1) : \A j \in 1..Len(segs) : segs[j].id # i

\* The segment list addSegment builds; position is null or <<p>>.
addSegmentList(segs, newSegment, position) ==
    IF ~isNil(position)
    THEN SubSeq(segs, 1, position[1]) \o <<newSegment>>
         \o SubSeq(segs, position[1] + 2, Len(segs))
    ELSE Append(segs, newSegment)

\* lodash pullAt(array, index): the array of the removed elements.
pullAt(segs, index) == <<segs[index + 1]>>

\* The segment list deleteSegment builds; position is null or <<p>>.
deleteSegmentList(segs, position) ==
    IF ~isNil(position) THEN pullAt(segs, position[1])
    ELSE SubSeq(segs, 1, Len(segs) - 1)

----------------------------------------------------------------------------
(* Winwheel.js: rotation *)

\* Math.floor(x / 360) and Math.ceil(x / 360), as whole numbers of turns.
FloorTurns(x) == x \div Deg(360)
CeilTurns(x) == -((-x) \div Deg(360))

getRotationPosition_ceilsPositive(angle) ==
    IF angle >= 0
    THEN IF angle > Deg(360) THEN angle - Deg(360) * CeilTurns(angle) ELSE angle
    ELSE LET rawAngle == IF angle < -Deg(360)
                         THEN angle - Deg(360) * CeilTurns(angle) ELSE angle
         IN  Deg(360) + rawAngle

\* Winwheel.getRotationPosition, for options.rotationAngle = angle.
getRotationPosition(angle) ==
    IF angle >= 0
    THEN IF angle > Deg(360) THEN angle - Deg(360) * FloorTurns(angle) ELSE angle
    ELSE LET rawAngle == IF angle < -Deg(360)
                         THEN angle - Deg(360) * CeilTurns(angle) ELSE angle
         IN  Deg(360) + rawAngle

\* The pointer's angle relative to the wheel, as getIndicatedSegmentNumber
\* computes it.
RelativeAngle(pointer, rotation) ==
    LET relativeAngle == Floor(pointer - getRotationPosition(rotation))
    IN  IF relativeAngle < 0 THEN Deg(360) - Abs(relativeAngle) ELSE relativeAngle

getIndicatedSegmentNumber_rotationMinusPointer(segs, pointer, rotation) ==
    LET relativeAngle == RelativeAngle(rotation, pointer)
        hits == {x \in 0..(Len(segs) - 1) :
                    /\ relativeAngle >= segs[x + 1].startAngle
                    /\ relativeAngle <= segs[x + 1].endAngle}
    IN  IF hits = {} THEN 0 ELSE CHOOSE x \in hits : \A y \in hits : x <= y

\* Winwheel.getIndicatedSegmentNumber: the first segment whose span holds the
\* relative angle, 0 when none does.
getIndicatedSegmentNumber(segs, pointer, rotation) ==
    LET relativeAngle == RelativeAngle(pointer, rotation)
        hits == {x \in 0..(Len(segs) - 1) :
                    /\ relativeAngle >= segs[x + 1].startAngle
                    /\ relativeAngle <= segs[x + 1].endAngle}
    IN  IF hits = {} THEN 0 ELSE CHOOSE x \in hits : \A y \in hits : x <= y

----------------------------------------------------------------------------
(* Animation.js *)

SPIN_ONGOING == "spinOngoing"
SPIN_TO_STOP == "spinToStop"
SPIN_AND_BACK == "spinAndBack"
CUSTOM == "custom"
CLOCKWISE == "clockwise"
ANTI_CLOCKWISE == "anti-clockwise"

\* The JavaScript value undefined, as the value of a key an option bag holds:
\* it is neither null (<<>>) nor a value (<<v>>).
undefined == <<"undefined", "undefined">>

\* lodash defaults(object, source): the keys the object leaves undefined,
\* absent or holding undefined, are taken from the source.
defaults(options, source) ==
    [k \in (DOMAIN options) \cup (DOMAIN source) |->
        IF k \in DOMAIN options /\ (options[k] # undefined \/ k \notin DOMAIN source)
        THEN options[k] ELSE source[k]]

\* Animation.defaultOptions
AnimationDefaultOptions ==
    [type |-> Some(SPIN_ONGOING), direction |-> Some(CLOCKWISE),
     propertyName |-> Null, propertyValue |-> Null, duration |-> Some(10),
     yoyo |-> Some(FALSE), repeat |-> Null, easing |-> Null,
     stopAngle |-> Null, spins |-> Null, clearTheCanvas |-> Null,
     callbackFinished |-> Null, callbackBefore |-> Null,
     callbackAfter |-> Null, callbackSound |-> Null,
     soundTrigger |-> Some("segment")]

\* new Animation(options)
Animation(options) == defaults(options, AnimationDefaultOptions)

\* An option bag without any key: {}
EmptyBag == [k \in {} |-> Null]

\* if (this.options[key] == null) this.options[key] = value
FillIfNull(o, key, value) == IF o[key] = Null THEN [o EXCEPT ![key] = Some(value)] ELSE o

\* The value spins * 360, negated when the direction is anti-clockwise, plus
\* (clockwise) the internal stop angle or minus (anti-clockwise) 360 less it.
SpinValue(o, stop) ==
    LET turns == Deg(o.spins[1] * 360)
    IN  IF o.direction = Some(ANTI_CLOCKWISE)
        THEN (0 - turns) - (Deg(360) - stop)
        ELSE turns + stop

\* computeAnimation, case ANIMATION_TYPE.SPIN_ONGOING
computeSpinOngoing(o, st) ==
    LET o1 == [o EXCEPT !.propertyName = Some("rotationAngle")]
        o2 == FillIfNull(o1, "spins", 5)
        o3 == FillIfNull(o2, "repeat", -1)
        o4 == FillIfNull(o3, "easing", "Linear.easeNone")
        o5 == FillIfNull(o4, "yoyo", FALSE)
        turns == Deg(o5.spins[1] * 360)
    IN  [options |-> [o5 EXCEPT !.propertyValue =
                        Some(IF o5.direction = Some(ANTI_CLOCKWISE)
                             THEN 0 - turns ELSE turns)],
         stopAngleInt |-> st]

computeSpinToStop_ignoresPointer(o, st, pointer, random) ==
    LET o1 == [o EXCEPT !.propertyName = Some("rotationAngle")]
        o2 == FillIfNull(o1, "spins", 5)
        o3 == FillIfNull(o2, "repeat", 0)
        o4 == FillIfNull(o3, "easing", "Power3.easeOut")
        stop == IF o4.stopAngle = Null THEN Deg(random)
                ELSE Deg(360) - o4.stopAngle[1]
        o5 == FillIfNull(o4, "yoyo", FALSE)
    IN  [options |-> [o5 EXCEPT !.propertyValue = Some(SpinValue(o5, stop))],
         stopAngleInt |-> Some(stop)]

\* computeAnimation, case ANIMATION_TYPE.SPIN_TO_STOP; random is the value
\* Math.floor(Math.random() * 359) takes.
computeSpinToStop(o, st, pointer, random) ==
    LET o1 == [o EXCEPT !.propertyName = Some("rotationAngle")]
        o2 == FillIfNull(o1, "spins", 5)
        o3 == FillIfNull(o2, "repeat", 0)
        o4 == FillIfNull(o3, "easing", "Power3.easeOut")
        stop == IF o4.stopAngle = Null THEN Deg(random)
                ELSE Deg(360) - o4.stopAngle[1] + pointer
        o5 == FillIfNull(o4, "yoyo", FALSE)
    IN  [options |-> [o5 EXCEPT !.propertyValue = Some(SpinValue(o5, stop))],
         stopAngleInt |-> Some(stop)]

\* computeAnimation, case ANIMATION_TYPE.SPIN_AND_BACK
computeSpinAndBack(o, st) ==
    LET o1 == [o EXCEPT !.propertyName = Some("rotationAngle")]
        o2 == FillIfNull(o1, "spins", 5)
        o3 == FillIfNull(o2, "repeat", 1)
        o4 == FillIfNull(o3, "easing", "Power2.easeInOut")
        o5 == FillIfNull(o4, "yoyo", TRUE)
        stop == IF o5.stopAngle = Null THEN 0 ELSE Deg(360) - o5.stopAngle[1]
    IN  [options |-> [o5 EXCEPT !.propertyValue = Some(SpinValue(o5, stop))],
         stopAngleInt |-> Some(stop)]

\* Animation.computeAnimation({ pointerAngle }): the options and _stopAngle
\* it leaves.  Any other type is the custom type: nothing is computed.
computeAnimation(o, st, pointer, random) ==
    CASE o.type = Some(SPIN_ONGOING) -> computeSpinOngoing(o, st)
      [] o.type = Some(SPIN_TO_STOP) -> computeSpinToStop(o, st, pointer, random)
      [] o.type = Some(SPIN_AND_BACK) -> computeSpinAndBack(o, st)
      [] OTHER -> [options |-> o, stopAngleInt |-> st]

----------------------------------------------------------------------------
(* Pin.js *)

\* Pin.defaultOptions
PinDefaultOptions ==
    [visible |-> Some(TRUE), number |-> Some(36), outerRadius |-> Some(3),
     fillStyle |-> Some("grey"), strokeStyle |-> Some("black"), lineWidth |-> Some(1),
     margin |-> Some(3), responsive |-> Some(FALSE)]

Pin_defaultsWin(options) == defaults(PinDefaultOptions, options)

\* new Pin(options): the options of the Pin
Pin(options) == defaults(options, PinDefaultOptions)

----------------------------------------------------------------------------
(* Winwheel.js: options and canvas *)

\* Winwheel.defaultOptions, the keys the model reads apart from numSegments,
\* rotationAngle, pointerAngle and animation, which are variables.  pins and
\* pointerGuide stand for the options of the Pin and PointerGuide objects the
\* constructor builds from them (PointerGuide: display false by default).
WinwheelDefaultOptions ==
    [centerX         |-> Null,
     centerY         |-> Null,
     outerRadius     |-> Null,
     innerRadius     |-> 0,
     drawMode        |-> "code",
     textFontSize    |-> 20,
     textOrientation |-> "horizontal",
     textAlignment   |-> "center",
     textDirection   |-> "normal",
     textMargin      |-> Null,
     textFillStyle   |-> Some("black"),
     textStrokeStyle |-> Null,
     clearTheCanvas  |-> TRUE,
     imageOverlay    |-> FALSE,
     drawText        |-> TRUE,
     imageDirection  |-> "N",
     wheelImage      |-> Null,
     pins            |-> Null,
     pointerGuide    |-> [display |-> FALSE],
     scaleFactor     |-> 1]

\* initiateCanvas when neither the canvas element nor an element of the
\* canvasId exists: no canvas, no context, the options as defaulted.
NoCanvas == /\ wheelOptions = WinwheelDefaultOptions
            /\ ctx = Null

\* The Image loads in flight: live holds the ids of the segments whose
\* current imgData is still loading, stale counts the loading Images that a
\* changeImage has replaced (their onload handler stays attached).
NoLoads == [live |-> {}, stale |-> 0]

\* history: steps lists what the last handler ran, in order; finished counts
\* the callbackFinished calls since the last startAnimation; draws counts
\* the draws winwheelLoadedImage has made.
NoCalls == [steps |-> <<>>, finished |-> 0, draws |-> 0]

\* The constructor: winwheelAlreadyDrawn = false, no _lastSoundTriggerNumber
\* yet, no image requested.
Fresh == /\ winwheelAlreadyDrawn = FALSE
         /\ lastSoundTriggerNumber = Null
         /\ loading = NoLoads
         /\ calls = NoCalls

\* canvas.getContext('2d'): a fresh context.  stack holds the rotations
\* save() has pushed and restore() has not yet popped, rotation is the
\* rotation of the current transform (1/Unit degrees), log lists what the
\* drawing calls have put on the canvas, oldest first, and low is history:
\* the least stack depth since the last draw began.
getContext == [stack |-> <<>>, rotation |-> 0, log |-> <<>>, low |-> 0]

----------------------------------------------------------------------------
(* The canvas context *)

\* context.save()
save(c) == [c EXCEPT !.stack = Append(@, c.rotation)]

\* context.restore(): pops the saved state; nothing when none is saved.
restore(c) ==
    IF c.stack = <<>> THEN c
    ELSE [c EXCEPT !.rotation = c.stack[Len(c.stack)],
                   !.stack = SubSeq(c.stack, 1, Len(c.stack) - 1),
                   !.low = IF Len(c.stack) - 1 < @ THEN Len(c.stack) - 1 ELSE @]

\* context.rotate(degToRad(angle)); the model keeps the angle in 1/Unit degrees.
rotate(c, angle) == [c EXCEPT !.rotation = @ + angle]

\* A drawing call: what it draws, under the rotation then in force.
Drawn(c, op, what) == [c EXCEPT !.log = Append(@, [op |-> op, what |-> what, rotation |-> c.rotation])]

\* context.clearRect over the whole canvas: nothing drawn remains.
clearRect(c) == [c EXCEPT !.log = <<>>]

\* What a drawing function leaves: the context, and the error it raised if any.
Returned(c) == [ctx |-> c, error |-> Null]

Raised_swallowed(c, message) == [ctx |-> c, error |-> Null]

\* throw new Error(message)
Raised(c, message) == [ctx |-> c, error |-> Some(message)]

----------------------------------------------------------------------------
(* Segment.js: text *)

ORIENTATION == [HORIZONTAL |-> "horizontal", VERTICAL |-> "vertical", CURVED |-> "curved"]
ALIGNMENT == [INNER |-> "inner", OUTER |-> "outer", CENTER |-> "center"]
DIRECTION == [REVERSED |-> "reversed"]

\* a || b on a nullable option a
OrElse(a, b) == IF a # Null THEN a[1] ELSE b

\* if (fillStyle) context.fillText(...); if (strokeStyle) context.strokeText(...)
FillThenStroke(c, opts, text) ==
    LET filled == IF opts.textFillStyle # Null THEN Drawn(c, "fillText", text) ELSE c
    IN  IF opts.textStrokeStyle # Null THEN Drawn(filled, "strokeText", text) ELSE filled

\* if (strokeStyle) context.strokeText(...); if (fillStyle) context.fillText(...)
StrokeThenFill(c, opts, text) ==
    LET stroked == IF opts.textStrokeStyle # Null THEN Drawn(c, "strokeText", text) ELSE c
    IN  IF opts.textFillStyle # Null THEN Drawn(stroked, "fillText", text) ELSE stroked

\* The character loops of vertical text: the one-character strings, in the
\* order given.
RECURSIVE DrawCharacters(_, _, _)
DrawCharacters(c, opts, characters) ==
    IF characters = <<>> THEN c
    ELSE DrawCharacters(FillThenStroke(c, opts, Head(characters)), opts, Tail(characters))

\* [line.charAt(c) : c = from, from - 1, ..., 0]; charAt past the end is ''.
RECURSIVE CharsDownFrom(_, _)
CharsDownFrom(line, from) ==
    IF from < 0 THEN <<>>
    ELSE <<IF from < Len(line) THEN <<line[from + 1]>> ELSE <<>>>> \o CharsDownFrom(line, from - 1)

\* [line.charAt(c) : c = 0, ..., line.length - 1]
CharsUp(line) == [i \in 1..Len(line) |-> <<line[i]>>]

\* The character loop of curved text: each character within its own
\* save/restore, rotated to drawAngle, which then moves on by anglePerChar.
RECURSIVE DrawCurved(_, _, _, _, _)
DrawCurved(c, opts, characters, drawAngle, anglePerChar) ==
    IF characters = <<>> THEN c
    ELSE DrawCurved(restore(StrokeThenFill(rotate(save(c), drawAngle), opts, Head(characters))),
                    opts, Tail(characters), drawAngle + anglePerChar, anglePerChar)

\* anglePerChar = 4 * (fontSize / 10) * (100 / radius), in 1/Unit degrees; the
\* wheels of the model have radii for which the division is exact.
AnglePerChar(fontSize, radius) == (4 * fontSize * 100 * Unit) \div (10 * radius)

\* The radius curved text is drawn at.
CurvedRadius(alignment, reversed, innerRadius, outerRadius, margin, fontSize, lineTotal) ==
    CASE alignment = ALIGNMENT.INNER ->
            IF reversed THEN innerRadius + margin
            ELSE innerRadius + margin + fontSize * (lineTotal - 1)
      [] alignment = ALIGNMENT.OUTER ->
            IF reversed THEN outerRadius - margin - fontSize * (lineTotal - 1)
            ELSE outerRadius - margin
      [] alignment = ALIGNMENT.CENTER -> innerRadius + margin + (outerRadius - innerRadius) \div 2
      [] OTHER -> 0

\* The first drawAngle of a curved line, before the wheel's rotation is added.
CurvedStart(segment, line, anglePerChar) ==
    IF Len(line) > 1
    THEN segment.startAngle + (segment.endAngle - segment.startAngle) \div 2
         - (anglePerChar * Len(line)) \div 2
    ELSE segment.startAngle + (segment.endAngle - segment.startAngle) \div 2

\* Segment._drawTextNormal for one line
drawTextNormal(c, segment, opts, rotation, line, lineTotal, orientation, alignment) ==
    LET fontSize == opts.textFontSize * opts.scaleFactor
        margin == opts.textMargin[1] * opts.scaleFactor
        innerRadius == opts.innerRadius * opts.scaleFactor
        outerRadius == opts.outerRadius[1] * opts.scaleFactor
        middle == segment.endAngle - (segment.endAngle - segment.startAngle) \div 2
    IN  CASE orientation = ORIENTATION.HORIZONTAL ->
               Returned(restore(FillThenStroke(
                   rotate(save(c), middle + rotation - Deg(90)), opts, line)))
          [] orientation = ORIENTATION.VERTICAL ->
               LET characters ==
                       CASE alignment = ALIGNMENT.OUTER -> CharsUp(line)
                         [] alignment = ALIGNMENT.INNER -> CharsDownFrom(line, Len(line) - 1)
                         [] alignment = ALIGNMENT.CENTER -> CharsUp(line)
                         [] OTHER -> <<>>
               IN  Returned(restore(DrawCharacters(
                       rotate(save(c), middle + rotation), opts, characters)))
          [] orientation = ORIENTATION.CURVED ->
               LET radius == CurvedRadius(alignment, FALSE, innerRadius, outerRadius,
                                          margin, fontSize, lineTotal)
                   anglePerChar == IF Len(line) > 1 THEN AnglePerChar(fontSize, radius) ELSE 0
                   drawAngle == CurvedStart(segment, line, anglePerChar) + rotation
               IN  Returned(DrawCurved(c, opts, CharsUp(line), drawAngle, anglePerChar))
          [] OTHER -> Raised(c, "Invalid orientation")

\* Segment._drawTextReversed for one line
drawTextReversed(c, segment, opts, rotation, line, lineTotal, orientation, alignment) ==
    LET fontSize == opts.textFontSize * opts.scaleFactor
        margin == opts.textMargin[1] * opts.scaleFactor
        innerRadius == opts.innerRadius * opts.scaleFactor
        outerRadius == opts.outerRadius[1] * opts.scaleFactor
        middle == segment.endAngle - (segment.endAngle - segment.startAngle) \div 2
    IN  CASE orientation = ORIENTATION.HORIZONTAL ->
               Returned(restore(FillThenStroke(
                   rotate(save(c), (middle + rotation - Deg(90)) - Deg(180)), opts, line)))
          [] orientation = ORIENTATION.VERTICAL ->
               LET characters ==
                       CASE alignment = ALIGNMENT.OUTER -> CharsDownFrom(line, Len(line) - 1)
                         [] alignment = ALIGNMENT.INNER -> CharsUp(line)
                         [] alignment = ALIGNMENT.CENTER -> CharsDownFrom(line, Len(line) - 1)
                         [] OTHER -> <<>>
               IN  Returned(restore(DrawCharacters(
                       rotate(save(c), (middle - Deg(180)) + rotation), opts, characters)))
          [] orientation = ORIENTATION.CURVED ->
               LET radius == CurvedRadius(alignment, TRUE, innerRadius, outerRadius,
                                          margin, fontSize, lineTotal)
                   anglePerChar == IF Len(line) > 1 THEN AnglePerChar(fontSize, radius) ELSE 0
                   drawAngle == CurvedStart(segment, line, anglePerChar) + rotation - Deg(180)
               IN  Returned(DrawCurved(c, opts, CharsDownFrom(line, Len(line)),
                                       drawAngle, anglePerChar))
          [] OTHER -> Raised(c, "Invalid orientation")

\* The lines of drawText's loop from the i-th on: each line drawn reversed or
\* normally; an error raised by a line ends the loop.
RECURSIVE DrawLines(_, _, _, _, _, _, _, _)
DrawLines(c, segment, opts, rotation, i, orientation, alignment, direction) ==
    IF i > Len(segment.text) THEN Returned(c)
    ELSE LET drawn == IF direction = DIRECTION.REVERSED
                      THEN drawTextReversed(c, segment, opts, rotation, segment.text[i],
                                            Len(segment.text), orientation, alignment)
                      ELSE drawTextNormal(c, segment, opts, rotation, segment.text[i],
                                          Len(segment.text), orientation, alignment)
         IN  IF drawn.error # Null THEN drawn
             ELSE DrawLines(drawn.ctx, segment, opts, rotation, i + 1,
                            orientation, alignment, direction)

\* Segment.drawText
drawText(c, segment, opts, rotation) ==
    IF segment.text = <<>> THEN Returned(c)
    ELSE DrawLines(c, segment, opts, rotation, 1,
                   OrElse(segment.textOrientation, opts.textOrientation),
                   OrElse(segment.textAlignment, opts.textAlignment),
                   OrElse(segment.textDirection, opts.textDirection))

----------------------------------------------------------------------------
(* Segment.js: images and arcs *)

\* Segment.renderImage: a new Image is created for the segment's image; it
\* has no height until it has loaded.
renderImage(segment) ==
    IF segment.image = Null THEN segment
    ELSE [segment EXCEPT !.imgData = Some([height |-> 0])]

\* get(options, 'imgData.height') is truthy
Loaded(segment) == segment.imgData # Null /\ segment.imgData[1].height # 0

\* Segment.changeImage(image, imageDirection): the image name, the direction
\* when one is given, and a new Image that has yet to load.
changeImage(segment, image, imageDirection) ==
    [segment EXCEPT !.image = Some(image),
                    !.imageDirection = IF imageDirection # Null THEN imageDirection ELSE @,
                    !.imgData = Some([height |-> 0])]

\* The browser has loaded the segment's Image: it has its height.
onload(segment, height) == [segment EXCEPT !.imgData = Some([height |-> height])]

\* The segments whose Image has been created and has not loaded yet
InFlight(segs) == {segs[i].id : i \in {j \in 1..Len(segs) : segs[j].imgData # Null /\ ~Loaded(segs[j])}}

\* The segments for which renderImage created an Image between before and after
Requested(before, after) ==
    {after[i].id : i \in {j \in 1..Len(after) : before[j].imgData = Null /\ after[j].imgData # Null}}

\* imageAngle for the image's direction
ImageAngle(segment, imageDirection) ==
    LET half == (segment.endAngle - segment.startAngle) \div 2
    IN  CASE imageDirection = "S" -> segment.startAngle + Deg(180) + half
          [] imageDirection = "E" -> segment.startAngle + Deg(270) + half
          [] imageDirection = "W" -> segment.startAngle + Deg(90) + half
          [] OTHER -> segment.startAngle + half

drawImage_drawsUnloaded(c, segment, opts, rotation) ==
    LET rendered == IF segment.imgData = Null THEN renderImage(segment) ELSE segment
    IN  [ctx |-> restore(Drawn(
                     rotate(save(c), rotation + ImageAngle(rendered,
                                OrElse(rendered.imageDirection, opts.imageDirection))),
                     "drawImage", rendered.id)),
         error |-> Null, segment |-> rendered]

\* Segment.drawImage on a context: the outcome and the segment, whose imgData
\* renderImage may have set.
drawImage(c, segment, opts, rotation) ==
    LET rendered == IF segment.imgData = Null THEN renderImage(segment) ELSE segment
    IN  IF ~Loaded(rendered)
        THEN [ctx |-> c, error |-> Some("imgData is not loaded"), segment |-> rendered]
        ELSE [ctx |-> restore(Drawn(
                         rotate(save(c), rotation + ImageAngle(rendered,
                                    OrElse(rendered.imageDirection, opts.imageDirection))),
                         "drawImage", rendered.id)),
              error |-> Null, segment |-> rendered]

\* Segment.draw: the arc of the segment, the wheel's fillStyle or strokeStyle
\* being set (as they are by default).
drawSegment(c, segment, rotation) ==
    Drawn(c, "arc", [startAngle |-> segment.startAngle + rotation - Deg(90),
                     endAngle |-> segment.endAngle + rotation - Deg(90)])

\* Segment.getRandomStopAngle, Math.random() having returned random/4: one
\* degree inside the start plus a whole number of degrees below the range,
\* and 0 (with a console.log) when the segment leaves no range.
getRandomStopAngle(segment, random) ==
    LET range == (segment.endAngle - segment.startAngle) - Deg(2)
    IN  IF range > 0
        THEN segment.startAngle + Deg(1) + Floor((random * range) \div 4)
        ELSE 0

----------------------------------------------------------------------------
(* Winwheel.js: drawing *)

DRAW_MODE == [CODE |-> "code", IMAGE |-> "image", SEGMENT_IMAGE |-> "segmentImage"]

\* What a drawing function of the wheel leaves: the context, the segments,
\* the error it raised if any, and the indexes console.error reported.
Outcome(c, segs, error, console) ==
    [ctx |-> c, segments |-> segs, error |-> error, console |-> console]

\* Winwheel.drawWheelImage
drawWheelImage(c, opts, rotation) ==
    IF isNil(opts.wheelImage) THEN c
    ELSE restore(Drawn(rotate(save(c), rotation), "drawImage", opts.wheelImage[1]))

\* Winwheel.drawSegmentImages from the i-th segment on: an error drawImage
\* raises is caught and reported, and the loop goes on.
RECURSIVE DrawSegmentImagesFrom(_, _, _, _, _, _)
DrawSegmentImagesFrom(c, segs, opts, rotation, i, console) ==
    IF i > Len(segs) THEN Outcome(c, segs, Null, console)
    ELSE LET drawn == drawImage(c, segs[i], opts, rotation)
         IN  DrawSegmentImagesFrom(drawn.ctx, [segs EXCEPT ![i] = drawn.segment], opts,
                                   rotation, i + 1,
                                   IF drawn.error # Null THEN Append(console, i - 1)
                                   ELSE console)

drawSegmentImages(c, segs, opts, rotation) ==
    DrawSegmentImagesFrom(c, segs, opts, rotation, 1, <<>>)

\* Winwheel.drawSegments
RECURSIVE DrawSegmentsFrom(_, _, _, _)
DrawSegmentsFrom(c, segs, rotation, i) ==
    IF i > Len(segs) THEN c
    ELSE DrawSegmentsFrom(drawSegment(c, segs[i], rotation), segs, rotation, i + 1)

drawSegments(c, segs, rotation) == DrawSegmentsFrom(c, segs, rotation, 1)

\* Winwheel.drawSegmentText from the i-th segment on: save, drawText,
\* restore; an error drawText raises leaves the loop before the restore.
RECURSIVE DrawSegmentTextFrom(_, _, _, _, _)
DrawSegmentTextFrom(c, segs, opts, rotation, i) ==
    IF i > Len(segs) THEN Returned(c)
    ELSE LET drawn == drawText(save(c), segs[i], opts, rotation)
         IN  IF drawn.error # Null THEN drawn
             ELSE DrawSegmentTextFrom(restore(drawn.ctx), segs, opts, rotation, i + 1)

drawSegmentText(c, segs, opts, rotation) == DrawSegmentTextFrom(c, segs, opts, rotation, 1)

\* Pin.draw: pin i within its own save/restore, rotated to its place.
RECURSIVE DrawPinsFrom(_, _, _, _)
DrawPinsFrom(c, pins, rotation, i) ==
    IF i >= pins.number THEN c
    ELSE DrawPinsFrom(restore(Drawn(rotate(save(c), i * (Deg(360) \div pins.number) + rotation),
                                    "arc", i)),
                      pins, rotation, i + 1)

\* Winwheel.drawPins
drawPins(c, opts, rotation) ==
    IF opts.pins = Null THEN c ELSE DrawPinsFrom(c, opts.pins[1], rotation, 0)

\* Winwheel.drawPointerGuide: PointerGuide.draw is handed options.outerRadius
\* as its pointerAngle and rotates by that many degrees.
drawPointerGuide(c, opts) ==
    restore(Drawn(rotate(save(c), Deg(opts.outerRadius[1])), "stroke", "pointerGuide"))

\* draw(): the outcome of the text drawing, with the wheel's segments
WithSegments(text, segs) == Outcome(text.ctx, segs, text.error, <<>>)

\* draw(): if (imageOverlay) drawSegments(), reached unless the text raised
Overlay(text, segs, opts, rotation, console) ==
    IF text.error # Null THEN Outcome(text.ctx, segs, text.error, console)
    ELSE Outcome(IF opts.imageOverlay THEN drawSegments(text.ctx, segs, rotation)
                 ELSE text.ctx,
                 segs, Null, console)

\* The text and overlay steps the image modes share.
TextThenOverlay(c, segs, opts, rotation, console) ==
    Overlay(IF opts.drawText THEN drawSegmentText(c, segs, opts, rotation) ELSE Returned(c),
            segs, opts, rotation, console)

\* draw(): the segmentImage case, the images and then the text
SegmentImagesThenText(images, opts, rotation) ==
    TextThenOverlay(images.ctx, images.segments, opts, rotation, images.console)

\* draw(): the default case, the arcs and then the text when drawText is set
CodeText(arcs, segs, opts, rotation) ==
    IF opts.drawText
    THEN WithSegments(drawSegmentText(arcs, segs, opts, rotation), segs)
    ELSE Outcome(arcs, segs, Null, <<>>)

\* draw(): if (pins && pins.visible) drawPins()
Pinned(c, opts, rotation) ==
    IF opts.pins # Null /\ opts.pins[1].visible THEN drawPins(c, opts, rotation) ELSE c

\* draw(): if (pointerGuide.display) drawPointerGuide()
Guided(c, opts) == IF opts.pointerGuide.display THEN drawPointerGuide(c, opts) ELSE c

\* draw(): the canvas is cleared first when clearTheCanvas is set
Cleared(c, clearTheCanvas) ==
    IF clearTheCanvas THEN clearRect([c EXCEPT !.low = Len(c.stack)])
    ELSE [c EXCEPT !.low = Len(c.stack)]

\* draw(): the switch on options.drawMode, whose default draws the code mode
DrawMode(cleared, segs, opts, rotation) ==
    CASE opts.drawMode = DRAW_MODE.IMAGE ->
           TextThenOverlay(drawWheelImage(cleared, opts, rotation), segs, opts, rotation, <<>>)
      [] opts.drawMode = DRAW_MODE.SEGMENT_IMAGE ->
           SegmentImagesThenText(drawSegmentImages(cleared, segs, opts, rotation),
                                 opts, rotation)
      [] OTHER ->
           CodeText(drawSegments(cleared, segs, rotation), segs, opts, rotation)

\* draw(): after the switch, the pins and the pointer guide; a raise in the
\* switch leaves draw() before either
PinsAndGuide(mode, opts, rotation) ==
    IF mode.error # Null
    THEN Outcome(Some(mode.ctx), mode.segments, mode.error, mode.console)
    ELSE Outcome(Some(Guided(Pinned(mode.ctx, opts, rotation), opts)),
                 mode.segments, Null, mode.console)

\* Winwheel.draw(clearTheCanvas) on the wheel's context, <<>> when it has
\* none.  An error raised on the way ends the draw.
draw(context, segs, opts, rotation, clearTheCanvas) ==
    IF context = Null THEN Outcome(Null, segs, Null, <<>>)
    ELSE PinsAndGuide(DrawMode(Cleared(context[1], clearTheCanvas), segs, opts, rotation),
                      opts, rotation)

\* Winwheel.clearCanvas
clearCanvas(context) == IF context = Null THEN Null ELSE Some(clearRect(context[1]))

\* Winwheel.getRandomForSegment(segmentNumber), segmentNumber null or <<n>>:
\* the error raised, or the value returned.
getRandomForSegment(segs, segmentNumber, random) ==
    IF segmentNumber = Null \/ segmentNumber[1] = 0
    THEN [error |-> Some("Segment number not specified"), value |-> Null]
    ELSE IF segmentNumber[1] >= Len(segs)
         THEN [error |-> Some("Segment undefined"), value |-> Null]
         ELSE [error |-> Null,
               value |-> Some(getRandomStopAngle(segs[segmentNumber[1] + 1], random))]

----------------------------------------------------------------------------
(* Winwheel.js: pins, sound and the animation loop *)

\* Winwheel.getCurrentPinNumber: the first pin gap that holds the relative
\* angle, 0 when none does, and one more when the animation turns clockwise.
\* pins is the wheel's Pin, <<>> when it has none.
getCurrentPinNumber(pins, direction, pointer, rotation) ==
    IF pins = Null THEN 0
    ELSE LET number == pins[1].number
             relativeAngle == RelativeAngle(pointer, rotation)
             pinSpacing == Divide(Deg(360), number)
             hits == {x \in 0..(number - 1) :
                         /\ relativeAngle >= x * pinSpacing
                         /\ relativeAngle <= x * pinSpacing + pinSpacing}
             currentPin == IF hits = {} THEN 0 ELSE CHOOSE x \in hits : \A y \in hits : x <= y
         IN  IF direction = Some(CLOCKWISE)
             THEN IF currentPin + 1 > number THEN 0 ELSE currentPin + 1
             ELSE currentPin

\* winwheelTriggerSound: currentTriggerNumber by the soundTrigger type
TriggerNumber(anim, segs, opts, pointer, rotation) ==
    IF anim.soundTrigger = Some("pin")
    THEN getCurrentPinNumber(opts.pins, anim.direction, pointer, rotation)
    ELSE getIndicatedSegmentNumber(segs, pointer, rotation)

winwheelTriggerSound_everyTick(last, current) ==
    [called |-> TRUE, last |-> Some(current)]

\* winwheelTriggerSound, for the current trigger number: _lastSoundTriggerNumber
\* is created as 0 when it does not exist; callbackSound is called and the
\* number recorded when the current number is another one.
winwheelTriggerSound(last, current) ==
    IF current # OrElse(last, 0)
    THEN [called |-> TRUE, last |-> Some(current)]
    ELSE [called |-> FALSE, last |-> Some(OrElse(last, 0))]

\* A callback of the animation that is a function: it is called, and draws
\* its mark on the canvas when there is one.
Marked(context, name) ==
    IF context = Null THEN Null ELSE Some(Drawn(context[1], "callback", name))

\* winwheelAnimationLoop, as it begins: nothing run yet
LoopStart(context, segs, last) ==
    [ctx |-> context, segments |-> segs, steps |-> <<>>, error |-> Null,
     console |-> <<>>, last |-> last]

Step(t, name) == [t EXCEPT !.steps = Append(@, name)]

\* if (this.animation.options.clearTheCanvas) this.clearCanvas()
LoopClear(t, anim) ==
    IF anim.clearTheCanvas = Some(TRUE)
    THEN Step([t EXCEPT !.ctx = clearCanvas(t.ctx)], "clearCanvas")
    ELSE t

\* if (callback !== null) callback()
Callback(t, callback, name) ==
    IF callback = Null THEN t ELSE Step([t EXCEPT !.ctx = Marked(t.ctx, name)], name)

\* The loop after its draw: an error the draw raised ends the loop
AfterDraw(t, drawn) ==
    [t EXCEPT !.ctx = drawn.ctx, !.segments = drawn.segments, !.error = drawn.error,
              !.console = drawn.console]

LoopDraw_clears(t, opts, rotation) ==
    AfterDraw(Step(t, "draw"), draw(t.ctx, t.segments, opts, rotation, TRUE))

\* this.draw(false)
LoopDraw(t, opts, rotation) ==
    AfterDraw(Step(t, "draw"), draw(t.ctx, t.segments, opts, rotation, FALSE))

\* if (callbackAfter !== null) callbackAfter(), reached unless the draw raised
LoopAfter(t, anim) ==
    IF t.error # Null THEN t ELSE Callback(t, anim.callbackAfter, "callbackAfter")

\* The loop after winwheelTriggerSound
AfterSound(t, sound) ==
    IF sound.called THEN Step([t EXCEPT !.last = sound.last], "callbackSound")
    ELSE [t EXCEPT !.last = sound.last]

\* if (callbackSound) this.winwheelTriggerSound(), reached unless the draw raised
LoopSound(t, anim, current) ==
    IF t.error # Null \/ anim.callbackSound = Null THEN t
    ELSE AfterSound(t, winwheelTriggerSound(t.last, current))

\* Winwheel.winwheelAnimationLoop, the tween's onUpdate
winwheelAnimationLoop(context, segs, opts, rotation, pointer, anim, last) ==
    LoopSound(
        LoopAfter(
            LoopDraw(Callback(LoopClear(LoopStart(context, segs, last), anim),
                              anim.callbackBefore, "callbackBefore"),
                     opts, rotation),
            anim),
        anim, TriggerNumber(anim, segs, opts, pointer, rotation))

\* Winwheel.winwheelStopAnimation(canCallback), canCallback being <<>> when
\* the argument is left out (it then defaults to true): whether
\* callbackFinished is called.
winwheelStopAnimation(anim, canCallback) ==
    OrElse(canCallback, TRUE) /\ anim.callbackFinished # Null

winwheelLoadedImage_noLatch(alreadyDrawn, context, segs, opts, rotation) ==
    IF \A i \in 1..Len(segs) : Loaded(segs[i])
    THEN [drew |-> TRUE, alreadyDrawn |-> TRUE,
          drawn |-> draw(context, segs, opts, rotation, TRUE)]
    ELSE [drew |-> FALSE, alreadyDrawn |-> alreadyDrawn,
          drawn |-> Outcome(context, segs, Null, <<>>)]

\* Winwheel.winwheelLoadedImage, the onload handler of every segment's
\* Image: unless winwheelAlreadyDrawn, the wheel is drawn when the loaded
\* images are as many as the segments, and winwheelAlreadyDrawn is set.
winwheelLoadedImage(alreadyDrawn, context, segs, opts, rotation) ==
    IF ~alreadyDrawn /\ \A i \in 1..Len(segs) : Loaded(segs[i])
    THEN [drew |-> TRUE, alreadyDrawn |-> TRUE,
          drawn |-> draw(context, segs, opts, rotation, TRUE)]
    ELSE [drew |-> FALSE, alreadyDrawn |-> alreadyDrawn,
          drawn |-> Outcome(context, segs, Null, <<>>)]

----------------------------------------------------------------------------
(* Winwheel.js: hit testing *)

(***************************************************************************)
(* getSegmentNumberAt works on loc, the canvas location windowToCanvas     *)
(* returns.  The model gives loc by its offset from the scaled centre      *)
(* (centerX * scaleFactor, centerY * scaleFactor) in polar form,           *)
(* [bearing, distance]: bearing is the clockwise angle from straight up,   *)
(* 0 <= bearing < 360 in 1/Unit degrees, distance is in pixels.  So        *)
(* loc.x > centerX exactly when 0 < bearing < 180 and loc.y > centerY      *)
(* exactly when 90 < bearing < 270, the distance being positive.           *)
(***************************************************************************)

\* Math.round of an angle: to the nearest whole degree, halves upwards.
Round(x) == Floor(x + Unit \div 2)

leftRight(loc) ==
    IF loc.distance > 0 /\ loc.bearing > 0 /\ loc.bearing < Deg(180) THEN "R" ELSE "L"

topBottom(loc) ==
    IF loc.distance > 0 /\ loc.bearing > Deg(90) /\ loc.bearing < Deg(270) THEN "B" ELSE "T"

\* Math.atan(oppositeSideLength / adjacentSideLength) * 180/Math.PI: the angle
\* at the centre between the x axis and the line to loc, 90 when the adjacent
\* side is 0 (tanVal Infinity) and <<>> for NaN, when both sides are 0.
result(loc) ==
    IF loc.distance = 0 THEN Null
    ELSE CASE topBottom(loc) = "T" /\ leftRight(loc) = "R" -> Some(Deg(90) - loc.bearing)
           [] topBottom(loc) = "B" /\ leftRight(loc) = "R" -> Some(loc.bearing - Deg(90))
           [] topBottom(loc) = "B" /\ leftRight(loc) = "L" -> Some(Deg(270) - loc.bearing)
           [] topBottom(loc) = "T" /\ leftRight(loc) = "L" ->
                 IF loc.bearing = 0 THEN Some(Deg(90)) ELSE Some(loc.bearing - Deg(270))

\* The bearing getSegmentNumberAt computes: locationAngle after the quadrant
\* step and the rotation step; <<>> for NaN.
locationAngle(loc, rotation) ==
    IF result(loc) = Null THEN Null
    ELSE LET r == result(loc)[1]
             quadrant ==
                 CASE topBottom(loc) = "T" /\ leftRight(loc) = "R" -> Round(Deg(90) - r)
                   [] topBottom(loc) = "B" /\ leftRight(loc) = "R" -> Round(r + Deg(90))
                   [] topBottom(loc) = "B" /\ leftRight(loc) = "L" -> Round((Deg(90) - r) + Deg(180))
                   [] topBottom(loc) = "T" /\ leftRight(loc) = "L" -> Round(r + Deg(270))
             rotated == quadrant - getRotationPosition(rotation)
         IN  IF rotation # 0
             THEN IF rotated < 0 THEN Some(Deg(360) - Abs(rotated)) ELSE Some(rotated)
             ELSE Some(quadrant)

\* The segment loop's test for index x (0-based) without the radius test
foundSegmentNumber_ignoresRadius(segs, angle, hypotenuseSideLength, innerRadius, outerRadius) ==
    LET matches == {x \in 0..(Len(segs) - 1) :
                       /\ angle # Null
                       /\ angle[1] >= segs[x + 1].startAngle
                       /\ angle[1] <= segs[x + 1].endAngle}
    IN  IF matches = {} THEN Null
        ELSE Some(CHOOSE x \in matches : \A y \in matches : x <= y)

\* The segment loop: the first index whose [_startAngle, _endAngle] holds the
\* angle, the location being within the radii; null when there is none.
foundSegmentNumber(segs, angle, hypotenuseSideLength, innerRadius, outerRadius) ==
    LET matches == {x \in 0..(Len(segs) - 1) :
                       /\ angle # Null
                       /\ angle[1] >= segs[x + 1].startAngle
                       /\ angle[1] <= segs[x + 1].endAngle
                       /\ hypotenuseSideLength >= innerRadius
                       /\ hypotenuseSideLength <= outerRadius}
    IN  IF matches = {} THEN Null
        ELSE Some(CHOOSE x \in matches : \A y \in matches : x <= y)

\* Winwheel.getSegmentNumberAt(x, y), (x, y) being the point windowToCanvas
\* takes to loc.
getSegmentNumberAt(segs, opts, rotation, loc) ==
    foundSegmentNumber(segs, locationAngle(loc, rotation), loc.distance,
                       opts.innerRadius * opts.scaleFactor,
                       opts.outerRadius[1] * opts.scaleFactor)

----------------------------------------------------------------------------
(* Specification of the segment list: construction, addSegment,            *)
(* deleteSegment, updateSegmentSizes.                                      *)

\* The sizes a caller gives a segment: automatic, 0, or some degrees.
SizeChoices == {Null, Some(0), Some(Deg(90)), Some(Deg(120)), Some(Deg(180))}

\* The segment sizes of the wheels under construction: options.numSegments
\* is the length, options.segments[i].size the i-th entry.
WheelSizes == UNION {[1..n -> SizeChoices] : n \in 1..MaxSegments}

Untouched == /\ rotationAngle = 0
             /\ pointerAngle = 0
             /\ animation = Animation(EmptyBag)
             /\ stopAngleInt = Null
             /\ supplied = {}
             /\ tween = Null
             /\ NoCanvas

\* new Winwheel({numSegments, segments})
InitSegments ==
    /\ \E sizes \in WheelSizes :
          /\ segments = initiateSegments(sizes)
          /\ numSegments = Len(sizes)
          /\ lastCall = [op |-> "Winwheel", position |-> Null, sizes |-> sizes]
    /\ ret = Null
    /\ Fresh
    /\ Untouched

\* Winwheel.addSegment(options, position), options holding the size.
AddSegment(size, position) ==
    /\ numSegments < MaxSegments
    /\ LET newSegment == Segment(NewId(segments), size)
           list == addSegmentList(segments, newSegment, position)
           segmentPos == IF ~isNil(position) THEN position[1] ELSE Len(list) - 1
           sized == updateSegmentSizes(list, numSegments + 1)
       IN  /\ numSegments' = numSegments + 1
           /\ segments' = sized
           /\ ret' = Some(sized[segmentPos + 1])
    /\ lastCall' = [op |-> "addSegment", position |-> position, sizes |-> <<size>>]
    /\ UNCHANGED <<rotationAngle, pointerAngle, animation, stopAngleInt, supplied, tween>>
    /\ UNCHANGED <<wheelOptions, ctx>>
    /\ UNCHANGED <<winwheelAlreadyDrawn, lastSoundTriggerNumber, loading, calls>>

DeleteSegment_unguarded(position) ==
    /\ segments # <<>>
    /\ numSegments' = numSegments - 1
    /\ segments' = updateSegmentSizes(deleteSegmentList(segments, position), numSegments - 1)
    /\ ret' = Null
    /\ lastCall' = [op |-> "deleteSegment", position |-> position, sizes |-> <<>>]
    /\ UNCHANGED <<rotationAngle, pointerAngle, animation, stopAngleInt, supplied, tween>>
    /\ UNCHANGED <<wheelOptions, ctx>>
    /\ UNCHANGED <<winwheelAlreadyDrawn, lastSoundTriggerNumber, loading, calls>>

\* Winwheel.deleteSegment(position)
DeleteSegment(position) ==
    /\ IF Len(segments) <= 1
       THEN UNCHANGED <<segments, numSegments>>
       ELSE /\ numSegments' = numSegments - 1
            /\ segments' = updateSegmentSizes(deleteSegmentList(segments, position),
                                              numSegments - 1)
    /\ ret' = Null
    /\ lastCall' = [op |-> "deleteSegment", position |-> position, sizes |-> <<>>]
    /\ UNCHANGED <<rotationAngle, pointerAngle, animation, stopAngleInt, supplied, tween>>
    /\ UNCHANGED <<wheelOptions, ctx>>
    /\ UNCHANGED <<winwheelAlreadyDrawn, lastSoundTriggerNumber, loading, calls>>

\* Winwheel.updateSegmentSizes()
UpdateSegmentSizes ==
    /\ segments' = updateSegmentSizes(segments, numSegments)
    /\ ret' = Null
    /\ lastCall' = [op |-> "updateSegmentSizes", position |-> Null, sizes |-> <<>>]
    /\ UNCHANGED <<numSegments, rotationAngle, pointerAngle, animation, stopAngleInt,
                   supplied, tween>>
    /\ UNCHANGED <<wheelOptions, ctx>>
    /\ UNCHANGED <<winwheelAlreadyDrawn, lastSoundTriggerNumber, loading, calls>>

\* The positions a caller passes: none, or an index of the list (the index
\* just past the end included).
Positions(max) == {Null} \cup {Some(p) : p \in 0..max}

NextSegments ==
    \/ \E size \in SizeChoices, position \in Positions(Len(segments)) :
          AddSegment(size, position)
    \/ \E position \in Positions(Len(segments) - 1) : DeleteSegment(position)
    \/ UpdateSegmentSizes

SpecSegments == InitSegments /\ [][NextSegments]_vars

----------------------------------------------------------------------------
(* Properties of the segment list *)

Ids(segs) == [i \in 1..Len(segs) |-> segs[i].id]
IdSet(segs) == {segs[i].id : i \in 1..Len(segs)}

AllAutomatic(segs) == \A i \in 1..Len(segs) : segs[i].size = Null

StartsAtZero(segs) == segs # <<>> /\ segs[1].startAngle = 0

Contiguous(segs) ==
    \A i \in 1..(Len(segs) - 1) : segs[i].endAngle = segs[i + 1].startAngle

NonDecreasing(segs) ==
    /\ \A i \in 1..Len(segs) : segs[i].startAngle <= segs[i].endAngle
    /\ \A i \in 1..(Len(segs) - 1) : segs[i].startAngle <= segs[i + 1].startAngle

EndsAt(segs, angle) == segs # <<>> /\ segs[Len(segs)].endAngle = angle

Partition360(segs) ==
    StartsAtZero(segs) /\ Contiguous(segs) /\ EndsAt(segs, Deg(360))

\* The sum of the sizes a caller gave explicitly (null counts as nothing).
RECURSIVE ExplicitSum(_)
ExplicitSum(sizes) ==
    IF sizes = <<>> THEN 0
    ELSE (IF Head(sizes) = Null THEN 0 ELSE Head(sizes)[1]) + ExplicitSum(Tail(sizes))

\* C1: on a wheel whose segments all have automatic size, after any
\* addSegment and deleteSegment calls options.numSegments is the number of
\* segments held, the first segment starts at 0, each segment ends where the
\* next starts, and the last ends at 360.
C1_AutomaticWheelIsPartitioned ==
    AllAutomatic(segments) =>
        /\ numSegments = Len(segments)
        /\ Partition360(segments)

\* C2: deleteSegment(position) on a wheel of N >= 2 segments leaves the other
\* N-1 segments in their original order, re-sized (equal shares of 360 on an
\* automatic wheel); deleteSegment() removes the last segment.
C2_DeleteRemovesExactlyThatSegment ==
    [][(lastCall'.op = "deleteSegment" /\ Len(segments) >= 2) =>
        LET N == Len(segments)
            gone == IF isNil(lastCall'.position) THEN N
                    ELSE lastCall'.position[1] + 1
        IN  /\ Len(segments') = N - 1
            /\ \A i \in 1..(N - 1) :
                  segments'[i].id = segments[IF i < gone THEN i ELSE i + 1].id
            /\ AllAutomatic(segments) /\ numSegments = N =>
                  \A i \in 1..(N - 1) :
                      /\ segments'[i].startAngle = (i - 1) * (Deg(360) \div (N - 1))
                      /\ segments'[i].endAngle = i * (Deg(360) \div (N - 1))
      ]_vars

\* C3: addSegment(options, position) with 0 <= position < N inserts: N+1
\* segments afterwards, the new one at index position, the segments that were
\* at an index >= position one place later, none lost, and the new segment
\* returned; without a position the new segment is appended.
C3_AddInsertsWithoutOverwriting ==
    [][(lastCall'.op = "addSegment"
        /\ (isNil(lastCall'.position) \/ lastCall'.position[1] < Len(segments))) =>
        LET N == Len(segments)
            at == IF isNil(lastCall'.position) THEN N + 1
                  ELSE lastCall'.position[1] + 1
        IN  /\ Len(segments') = N + 1
            /\ ret' = Some(segments'[at])
            /\ segments'[at].id \notin IdSet(segments)
            /\ \A i \in 1..N :
                  segments'[IF i < at THEN i ELSE i + 1].id = segments[i].id
      ]_vars

Constructed == lastCall.op = "Winwheel"

----------------------------------------------------------------------------
(* Specification of the rotation: the wheel is constructed with some       *)
(* rotationAngle, the caller (or a tween) moves it, and                    *)
(* getRotationPosition normalises it.                                      *)

\* Whole and half degrees over MaxTurns full turns and a half, either way.
RotationLimit == Deg(MaxTurns * 360 + 180)
RotationAngles ==
    {Deg(d) + f : d \in -(MaxTurns * 360 + 180)..(MaxTurns * 360 + 179),
                  f \in {0, Unit \div 2}}

\* The steps by which a rotation moves: half a degree, a degree, a turn.
RotationSteps == {Unit \div 2, -(Unit \div 2), Deg(1), -Deg(1), Deg(360), -Deg(360)}

NoCall(op) == [op |-> op, position |-> Null, sizes |-> <<>>]

\* new Winwheel({rotationAngle})
InitRotation ==
    /\ rotationAngle \in RotationAngles
    /\ segments = initiateSegments(<<Null>>)
    /\ numSegments = 1
    /\ pointerAngle = 0
    /\ animation = Animation(EmptyBag)
    /\ stopAngleInt = Null
    /\ supplied = {}
    /\ tween = Null
    /\ NoCanvas
    /\ lastCall = NoCall("Winwheel")
    /\ ret = Null
    /\ Fresh

\* options.rotationAngle is written, by the caller or by a tween.
Rotate(step) ==
    /\ rotationAngle + step >= -RotationLimit
    /\ rotationAngle + step <= RotationLimit
    /\ rotationAngle' = rotationAngle + step
    /\ lastCall' = NoCall("rotate")
    /\ ret' = Null
    /\ UNCHANGED <<segments, numSegments, pointerAngle, animation, stopAngleInt,
                   supplied, tween>>
    /\ UNCHANGED <<wheelOptions, ctx>>
    /\ UNCHANGED <<winwheelAlreadyDrawn, lastSoundTriggerNumber, loading, calls>>

\* Winwheel.getRotationPosition()
GetRotationPosition ==
    /\ ret' = Some(getRotationPosition(rotationAngle))
    /\ lastCall' = NoCall("getRotationPosition")
    /\ UNCHANGED <<segments, numSegments, rotationAngle, pointerAngle, animation,
                   stopAngleInt, supplied, tween>>
    /\ UNCHANGED <<wheelOptions, ctx>>
    /\ UNCHANGED <<winwheelAlreadyDrawn, lastSoundTriggerNumber, loading, calls>>

NextRotation ==
    \/ \E step \in RotationSteps : Rotate(step)
    \/ GetRotationPosition

SpecRotation == InitRotation /\ [][NextRotation]_vars

\* C5: getRotationPosition returns r with 0 <= r < 360 for every
\* rotationAngle, multiples of 360 included.
C5_RotationPositionBelow360 ==
    lastCall.op = "getRotationPosition" =>
        ret[1] >= 0 /\ ret[1] < Deg(360)

\* C6: normalising a normalised angle gives it back: getRotationPosition of
\* the value getRotationPosition returned is that value.
C6_RotationPositionIdempotent ==
    lastCall.op = "getRotationPosition" =>
        getRotationPosition(ret[1]) = ret[1]

\* getRotationPosition has reduced an angle of more than a turn, either way.
C6_Witness ==
    /\ lastCall.op = "getRotationPosition"
    /\ \/ rotationAngle = Deg(-450) /\ ret = Some(Deg(270))
       \/ rotationAngle = Deg(725) /\ ret = Some(Deg(5))

----------------------------------------------------------------------------
(* Specification of the animation planner: an Animation is constructed     *)
(* from the caller's option bag, the caller changes its type, and          *)
(* computeAnimation runs, any number of times.                             *)

AnimationTypes == {SPIN_ONGOING, SPIN_TO_STOP, SPIN_AND_BACK, CUSTOM}

\* The stop angles and pointer angles a caller gives, in degrees.
StopAngles == {0, 90, 359}
PointerAngles == {0, 90, 359}

\* The values Math.floor(Math.random() * 359) is drawn from here.
RandomStops == {0, 179, 358}

\* What the caller's bag holds for each key: <<>> when the key is absent,
\* <<v>> when it has the value v (which is Null for a null).
BagChoices ==
    [type : {<<>>} \cup {Some(Some(t)) : t \in AnimationTypes},
     direction : {<<>>, Some(Some(ANTI_CLOCKWISE))},
     yoyo : {<<>>, Some(Null), Some(Some(TRUE)), Some(Some(FALSE))},
     repeat : {<<>>, Some(Some(3))},
     easing : {<<>>, Some(Some("Bounce.easeOut"))},
     stopAngle : {<<>>} \cup {Some(Some(Deg(s))) : s \in StopAngles},
     spins : {<<>>} \cup {Some(Some(n)) : n \in 0..MaxSpins}]

\* The option bag a choice stands for.
Bag(choice) == [k \in {key \in DOMAIN choice : choice[key] # <<>>} |-> choice[k][1]]

\* The keys to which a bag gives a value other than null.
SuppliedBy(bag) == {k \in DOMAIN bag : bag[k] # Null}

CallAnimation(op) == [op |-> op, position |-> Null, sizes |-> <<>>]

\* new Winwheel({pointerAngle, animation})
InitPlanner ==
    /\ \E choice \in BagChoices :
          /\ animation = Animation(Bag(choice))
          /\ supplied = SuppliedBy(Bag(choice))
    /\ pointerAngle \in {Deg(p) : p \in PointerAngles}
    /\ stopAngleInt = Null
    /\ segments = initiateSegments(<<Null>>)
    /\ numSegments = 1
    /\ rotationAngle = 0
    /\ tween = Null
    /\ NoCanvas
    /\ lastCall = CallAnimation("Winwheel")
    /\ ret = Null
    /\ Fresh

\* The caller writes wheel.animation.options.type.
SetAnimationType(type) ==
    /\ animation.type # Some(type)
    /\ animation' = [animation EXCEPT !.type = Some(type)]
    /\ supplied' = supplied \cup {"type"}
    /\ lastCall' = CallAnimation("setType")
    /\ ret' = Null
    /\ UNCHANGED <<segments, numSegments, rotationAngle, pointerAngle, stopAngleInt, tween>>
    /\ UNCHANGED <<wheelOptions, ctx>>
    /\ UNCHANGED <<winwheelAlreadyDrawn, lastSoundTriggerNumber, loading, calls>>

\* wheel.animation.computeAnimation({ pointerAngle: wheel.options.pointerAngle })
ComputeAnimation(random) ==
    /\ LET computed == computeAnimation(animation, stopAngleInt, pointerAngle, random)
       IN  /\ animation' = computed.options
           /\ stopAngleInt' = computed.stopAngleInt
    /\ lastCall' = CallAnimation("computeAnimation")
    /\ ret' = Null
    /\ UNCHANGED <<segments, numSegments, rotationAngle, pointerAngle, supplied, tween>>
    /\ UNCHANGED <<wheelOptions, ctx>>
    /\ UNCHANGED <<winwheelAlreadyDrawn, lastSoundTriggerNumber, loading, calls>>

NextPlanner ==
    \/ \E type \in AnimationTypes : SetAnimationType(type)
    \/ \E random \in RandomStops : ComputeAnimation(random)

SpecPlanner == InitPlanner /\ [][NextPlanner]_vars

Computed(type) ==
    lastCall.op = "computeAnimation" /\ animation.type = Some(type)

\* C7: for spin-to-stop with a specified stopAngle s, spins n and pointer
\* angle p, propertyValue is n*360 + (360 - s + p) clockwise and
\* -(n*360) - (360 - (360 - s + p)) anti-clockwise.
C7_SpinToStopValue ==
    (Computed(SPIN_TO_STOP) /\ animation.stopAngle # Null) =>
        LET n == animation.spins[1]
            s == animation.stopAngle[1]
            p == pointerAngle
        IN  /\ animation.direction = Some(CLOCKWISE) =>
                animation.propertyValue = Some(Deg(n * 360) + (Deg(360) - s + p))
            /\ animation.direction = Some(ANTI_CLOCKWISE) =>
                animation.propertyValue =
                    Some(-Deg(n * 360) - (Deg(360) - (Deg(360) - s + p)))

\* The two values of the example: 5 spins (the default), stop angle 90,
\* pointer angle 0 give 2070 clockwise and -1890 anti-clockwise; and a case
\* with a pointer angle other than 0.
C7_Witness ==
    /\ Computed(SPIN_TO_STOP)
    /\ animation.stopAngle = Some(Deg(90))
    /\ \/ /\ pointerAngle = 0 /\ animation.spins = Some(5)
          /\ \/ /\ animation.direction = Some(CLOCKWISE)
                /\ animation.propertyValue = Some(Deg(2070))
             \/ /\ animation.direction = Some(ANTI_CLOCKWISE)
                /\ animation.propertyValue = Some(Deg(-1890))
       \/ /\ pointerAngle = Deg(359) /\ animation.spins = Some(1)
          /\ animation.direction = Some(CLOCKWISE)
          /\ animation.propertyValue = Some(Deg(360 + 270 + 359))

\* The repeat and easing defaults of each kind.
DefaultRepeat(type) ==
    CASE type = SPIN_ONGOING -> -1 [] type = SPIN_TO_STOP -> 0 [] type = SPIN_AND_BACK -> 1
DefaultEasing(type) ==
    CASE type = SPIN_ONGOING -> "Linear.easeNone"
      [] type = SPIN_TO_STOP -> "Power3.easeOut"
      [] type = SPIN_AND_BACK -> "Power2.easeInOut"

\* C9: when the caller has never supplied repeat or easing, after
\* computeAnimation for kind K they hold K's defaults, also when
\* computeAnimation ran before on the same Animation with another kind.
C9_KindDefaultsAfterCompute ==
    \A type \in {SPIN_ONGOING, SPIN_TO_STOP, SPIN_AND_BACK} :
        (Computed(type) /\ "repeat" \notin supplied /\ "easing" \notin supplied) =>
            /\ animation.repeat = Some(DefaultRepeat(type))
            /\ animation.easing = Some(DefaultEasing(type))

\* C10: after computeAnimation for a spin-and-back animation options.yoyo is
\* true, also when the caller gave no yoyo option.
C10_SpinAndBackYoyo ==
    Computed(SPIN_AND_BACK) => animation.yoyo = Some(TRUE)

----------------------------------------------------------------------------
(* Specification of a spin: a wheel is constructed with its segments, a    *)
(* pointer angle, a rotation and an animation; startAnimation plans the    *)
(* animation and hands it to the tween driver, which moves                 *)
(* options.rotationAngle tick by tick and then completes.                  *)

\* The segment sizes of the wheels that spin: an automatic wheel, a mixed
\* one, and one whose explicit sizes leave part of the circle uncovered.
SpinWheels ==
    {<<Null, Null, Null>>, <<Some(Deg(90)), Null, Some(Deg(120))>>,
     <<Some(Deg(90)), Some(Deg(120))>>}

\* Stop angles, in degrees: around every multiple of 30.
SpinStopAngles == {a \in 0..359 : a % 30 \in {0, 1, 29}}

\* Pointer angles, in degrees.
SpinPointerAngles == {0, 135, 359}

\* The rotation the wheel has before its first spin.
SpinRotations == {0, -Deg(400)}

\* The animations the spinning wheels are constructed with.
SpinBags ==
    {Bag(c) : c \in
        [type : {Some(Some(SPIN_TO_STOP))},
         direction : {<<>>, Some(Some(ANTI_CLOCKWISE))},
         stopAngle : {<<>>} \cup {Some(Some(Deg(a))) : a \in SpinStopAngles},
         spins : {<<>>} \cup {Some(Some(n)) : n \in 0..MaxSpins}]}
    \cup {EmptyBag, Bag([type |-> Some(Some(SPIN_AND_BACK))])}

\* new Winwheel({numSegments, segments, pointerAngle, rotationAngle, animation})
InitSpin ==
    /\ \E sizes \in SpinWheels :
          /\ segments = initiateSegments(sizes)
          /\ numSegments = Len(sizes)
    /\ pointerAngle \in {Deg(a) : a \in SpinPointerAngles}
    /\ rotationAngle \in SpinRotations
    /\ \E bag \in SpinBags :
          /\ animation = Animation(bag)
          /\ supplied = SuppliedBy(bag)
    /\ stopAngleInt = Null
    /\ tween = Null
    /\ NoCanvas
    /\ lastCall = CallAnimation("Winwheel")
    /\ ret = Null
    /\ Fresh

Running == tween # Null /\ tween[1].state = "running"
Completed == tween # Null /\ tween[1].state = "completed"
Starts == IF tween = Null THEN 0 ELSE tween[1].starts

\* Winwheel.startAnimation(): computeAnimation, then TweenMax.to(this.options,
\* duration, {[propertyName]: propertyValue, yoyo, repeat, ...}).  The handle
\* records the property the tween drives, where it started and where it goes.
StartAnimation(random) ==
    /\ LET computed == computeAnimation(animation, stopAngleInt, pointerAngle, random)
       IN  /\ animation' = computed.options
           /\ stopAngleInt' = computed.stopAngleInt
           /\ tween' = Some([state |-> "running",
                             propertyName |-> computed.options.propertyName,
                             from |-> rotationAngle,
                             to |-> computed.options.propertyValue,
                             yoyo |-> computed.options.yoyo,
                             repeat |-> computed.options.repeat,
                             starts |-> Starts + 1])
    /\ calls' = [calls EXCEPT !.steps = <<>>, !.finished = 0]
    /\ lastCall' = CallAnimation("startAnimation")
    /\ ret' = Null
    /\ UNCHANGED <<segments, numSegments, rotationAngle, pointerAngle, supplied>>
    /\ UNCHANGED <<wheelOptions, ctx>>
    /\ UNCHANGED <<winwheelAlreadyDrawn, lastSoundTriggerNumber, loading>>

DrivesRotation(t) == t.propertyName = Some("rotationAngle") /\ t.to # Null

\* The rotations a tick may show: a quarter, a half and three quarters of
\* the way.
TickValues(t) == {t.from + ((t.to[1] - t.from) * k) \div 4 : k \in 1..3}

\* What a run of winwheelAnimationLoop leaves behind; ret is the error its
\* draw raised, if any.
Ticked(t) ==
    /\ ctx' = t.ctx
    /\ segments' = t.segments
    /\ loading' = [loading EXCEPT !.live = @ \cup Requested(segments, t.segments)]
    /\ lastSoundTriggerNumber' = t.last
    /\ calls' = [calls EXCEPT !.steps = t.steps]
    /\ ret' = t.error

\* A tick of the tween: the driver writes the property, then calls onUpdate
\* (winwheelAnimationLoop).
TweenUpdate ==
    /\ Running
    /\ IF DrivesRotation(tween[1])
       THEN rotationAngle' \in TickValues(tween[1])
       ELSE UNCHANGED rotationAngle
    /\ Ticked(winwheelAnimationLoop(ctx, segments, wheelOptions, rotationAngle',
                                    pointerAngle, animation, lastSoundTriggerNumber))
    /\ lastCall' = CallAnimation("winwheelAnimationLoop")
    /\ UNCHANGED <<numSegments, pointerAngle, animation, stopAngleInt, supplied, tween>>
    /\ UNCHANGED <<wheelOptions, winwheelAlreadyDrawn>>

\* Where a tween leaves its property: at the target, or back at the start
\* when it yoyos and repeats an odd number of times.
EndValue(t) ==
    IF t.yoyo = Some(TRUE) /\ t.repeat # Null /\ t.repeat[1] % 2 = 1
    THEN t.from ELSE t.to[1]

\* What a run of winwheelStopAnimation leaves behind
Stopped(called) ==
    calls' = IF called
             THEN [calls EXCEPT !.steps = <<"callbackFinished">>, !.finished = @ + 1]
             ELSE [calls EXCEPT !.steps = <<>>]

\* The tween ends (it never does when repeat is -1): the driver writes the
\* final value and calls onComplete (winwheelStopAnimation) without an
\* argument.
TweenComplete ==
    /\ Running
    /\ tween[1].repeat = Null \/ tween[1].repeat[1] >= 0
    /\ IF DrivesRotation(tween[1])
       THEN rotationAngle' = EndValue(tween[1])
       ELSE UNCHANGED rotationAngle
    /\ tween' = Some([tween[1] EXCEPT !.state = "completed"])
    /\ Stopped(winwheelStopAnimation(animation, Null))
    /\ lastCall' = CallAnimation("winwheelStopAnimation")
    /\ ret' = Null
    /\ UNCHANGED <<segments, numSegments, pointerAngle, animation, stopAngleInt, supplied>>
    /\ UNCHANGED <<wheelOptions, ctx>>
    /\ UNCHANGED <<winwheelAlreadyDrawn, lastSoundTriggerNumber, loading>>

\* tween.kill(): a running tween stops for good, its callbacks with it
kill(t) == IF t.state = "running" THEN [t EXCEPT !.state = "killed"] ELSE t

\* Winwheel.stopAnimation(canCallback), canCallback being <<>> when the
\* argument is left out
StopAnimation(canCallback) ==
    /\ tween' = IF tween # Null THEN Some(kill(tween[1])) ELSE tween
    /\ Stopped(winwheelStopAnimation(animation, canCallback))
    /\ lastCall' = [op |-> "stopAnimation", position |-> canCallback, sizes |-> <<>>]
    /\ ret' = Null
    /\ UNCHANGED <<segments, numSegments, rotationAngle, pointerAngle, animation,
                   stopAngleInt, supplied>>
    /\ UNCHANGED <<wheelOptions, ctx>>
    /\ UNCHANGED <<winwheelAlreadyDrawn, lastSoundTriggerNumber, loading>>

\* Winwheel.getIndicatedSegmentNumber()
GetIndicatedSegmentNumber ==
    /\ ret' = Some(getIndicatedSegmentNumber(segments, pointerAngle, rotationAngle))
    /\ lastCall' = CallAnimation("getIndicatedSegmentNumber")
    /\ UNCHANGED <<segments, numSegments, rotationAngle, pointerAngle, animation,
                   stopAngleInt, supplied, tween>>
    /\ UNCHANGED <<wheelOptions, ctx>>
    /\ UNCHANGED <<winwheelAlreadyDrawn, lastSoundTriggerNumber, loading, calls>>

NextSpin ==
    \/ \E random \in RandomStops : Starts < MaxRuns /\ StartAnimation(random)
    \/ TweenUpdate
    \/ TweenComplete
    \/ GetIndicatedSegmentNumber

SpecSpin == InitSpin /\ [][NextSpin]_vars

\* A spin-to-stop animation with a specified stop angle has completed, the
\* rotation is the computed propertyValue, and the indicated segment has
\* been asked for.
StoppedAndAsked ==
    /\ lastCall.op = "getIndicatedSegmentNumber"
    /\ Completed
    /\ animation.type = Some(SPIN_TO_STOP)
    /\ animation.stopAngle # Null
    /\ Some(rotationAngle) = animation.propertyValue

Holds(segment, angle) == segment.startAngle <= angle /\ angle <= segment.endAngle

C11_SpinAndBackStopTerm ==
    Computed(SPIN_AND_BACK) =>
        LET term == IF animation.stopAngle = Null THEN 0
                    ELSE Deg(360) - animation.stopAngle[1] + pointerAngle
        IN  /\ stopAngleInt = Some(term)
            /\ animation.direction = Some(CLOCKWISE) =>
                  animation.propertyValue = Some(Deg(animation.spins[1] * 360) + term)

----------------------------------------------------------------------------
(* Specification of hit testing: a wheel is constructed on a canvas with   *)
(* its segments, radii, scale factor and rotation, and getSegmentNumberAt  *)
(* is asked for locations around and across the ring.                      *)

\* The segment sizes of the wheels hit: automatic thirds, a quarter and the
\* rest, one segment, and a wheel with two segments under one degree wide.
HitWheels ==
    {<<Null, Null, Null>>, <<Some(Deg(90)), Null>>, <<Null>>,
     <<Some(Unit \div 2), Some(Unit \div 6), Null>>}

HitRotations == {Deg(0), Deg(90), Deg(359), Deg(720), -Deg(45)}

HitInnerRadii == {0, 50}

HitScaleFactors == {1, 2}

\* new Winwheel({canvasElement, numSegments, segments, innerRadius,
\* outerRadius, rotationAngle, scaleFactor}, false)
InitHit ==
    /\ \E sizes \in HitWheels :
          /\ segments = initiateSegments(sizes)
          /\ numSegments = Len(sizes)
    /\ rotationAngle \in HitRotations
    /\ \E inner \in HitInnerRadii, scale \in HitScaleFactors :
          wheelOptions = [WinwheelDefaultOptions EXCEPT
                             !.centerX = Some(200), !.centerY = Some(200),
                             !.outerRadius = Some(100), !.innerRadius = inner,
                             !.scaleFactor = scale]
    /\ ctx = Some(getContext)
    /\ pointerAngle = 0
    /\ animation = Animation(EmptyBag)
    /\ stopAngleInt = Null
    /\ supplied = {}
    /\ tween = Null
    /\ lastCall = [op |-> "Winwheel", loc |-> Null]
    /\ ret = Null
    /\ Fresh

\* The middle of a segment's span.
MidAngle(segment) == segment.startAngle + (segment.endAngle - segment.startAngle) \div 2

\* Where on the canvas a wheel angle shows when the wheel is rotated.
Displayed(angle, rotation) == (angle + rotation) % Deg(360)

\* Halfway between the scaled inner and outer radius.
MidRadius(opts) == ((opts.innerRadius + opts.outerRadius[1]) * opts.scaleFactor) \div 2

\* The locations asked for: at the displayed middle, start and end of every
\* segment, at the quarter turns and half a degree off them, and at
\* distances at, between and beyond the scaled radii and at the centre.
HitBearings ==
    UNION {{Displayed(MidAngle(segments[i]), rotationAngle),
            Displayed(segments[i].startAngle, rotationAngle),
            Displayed(segments[i].endAngle, rotationAngle)} : i \in 1..Len(segments)}
    \cup {Deg(0), Deg(90), Deg(180), Deg(270), Deg(90) + Unit \div 2, Deg(360) - Unit \div 2}

HitDistances ==
    LET inner == wheelOptions.innerRadius * wheelOptions.scaleFactor
        outer == wheelOptions.outerRadius[1] * wheelOptions.scaleFactor
    IN  {0, inner, MidRadius(wheelOptions), outer, outer + 1}
        \cup (IF inner > 0 THEN {inner - 1} ELSE {})

\* Winwheel.getSegmentNumberAt(x, y)
GetSegmentNumberAt(loc) ==
    /\ ret' = getSegmentNumberAt(segments, wheelOptions, rotationAngle, loc)
    /\ lastCall' = [op |-> "getSegmentNumberAt", loc |-> Some(loc)]
    /\ UNCHANGED <<segments, numSegments, rotationAngle, pointerAngle, animation,
                   stopAngleInt, supplied, tween, wheelOptions, ctx>>
    /\ UNCHANGED <<winwheelAlreadyDrawn, lastSoundTriggerNumber, loading, calls>>

NextHit ==
    \E bearing \in HitBearings, distance \in HitDistances :
        GetSegmentNumberAt([bearing |-> bearing, distance |-> distance])

SpecHit == InitHit /\ [][NextHit]_vars

Asked == lastCall.op = "getSegmentNumberAt"

InRing(loc) ==
    /\ loc.distance >= wheelOptions.innerRadius * wheelOptions.scaleFactor
    /\ loc.distance <= wheelOptions.outerRadius[1] * wheelOptions.scaleFactor

\* Segment i (1-based) holds the bearing computed for the location asked for.
HoldsBearing(i) ==
    LET bearing == locationAngle(lastCall.loc[1], rotationAngle)
    IN  bearing # Null /\ Holds(segments[i], bearing[1])

C13_MidPointResolvesToItsSegment ==
    (Asked /\ Partition360(segments) /\ rotationAngle \in HitRotations) =>
        \A i \in 1..Len(segments) :
            lastCall.loc[1] = [bearing  |-> Displayed(MidAngle(segments[i]), rotationAngle),
                               distance |-> MidRadius(wheelOptions)]
                => ret = Some(i - 1)

----------------------------------------------------------------------------
(* Specification of drawing: a wheel is constructed, with or without a     *)
(* canvas, with one or two segments carrying text and images, a draw mode  *)
(* and text defaults; the caller draws it and clears the canvas.           *)

\* A segment with text and image options set.
Styled(segment, text, orientation, alignment, direction, image, imgData) ==
    [segment EXCEPT !.text = text, !.textOrientation = orientation,
                    !.textAlignment = alignment, !.textDirection = direction,
                    !.image = image, !.imgData = imgData]

OneLine == <<<<"A", "B">>>>
TwoLines == <<<<"A", "B", "C">>, <<"D", "E">>>>

\* The options the segments are constructed with: no text and no image;
\* texts in every orientation and direction, valid and not; images not yet
\* requested, loading and loaded.
SegmentStyles ==
    {[text |-> <<>>, o |-> Null, a |-> Null, d |-> Null, image |-> Null, imgData |-> Null],
     [text |-> OneLine, o |-> Null, a |-> Null, d |-> Null, image |-> Null, imgData |-> Null],
     [text |-> TwoLines, o |-> Some("curved"), a |-> Some("outer"), d |-> Null,
      image |-> Null, imgData |-> Null],
     [text |-> TwoLines, o |-> Some("curved"), a |-> Null, d |-> Some("reversed"),
      image |-> Null, imgData |-> Null],
     [text |-> OneLine, o |-> Some("vertical"), a |-> Some("inner"), d |-> Some("reversed"),
      image |-> Some("a.png"), imgData |-> Some([height |-> 40])],
     [text |-> TwoLines, o |-> Some("diagonal"), a |-> Null, d |-> Null,
      image |-> Null, imgData |-> Null],
     [text |-> OneLine, o |-> Some("diagonal"), a |-> Null, d |-> Some("reversed"),
      image |-> Some("b.png"), imgData |-> Some([height |-> 40])],
     [text |-> OneLine, o |-> Null, a |-> Null, d |-> Some("sideways"),
      image |-> Some("c.png"), imgData |-> Null],
     [text |-> <<>>, o |-> Null, a |-> Null, d |-> Null,
      image |-> Some("d.png"), imgData |-> Some([height |-> 0])]}

\* The wheels drawn: one or two segments of automatic size.
DrawWheels == UNION {[1..n -> SegmentStyles] : n \in 1..2}

DrawModes == {"code", "image", "segmentImage", "svg"}

DrawRotations == {0, Deg(30)}

\* new Winwheel({canvasElement or none, numSegments, segments, drawMode,
\* drawText, textOrientation, textMargin, outerRadius, rotationAngle, and
\* with extras imageOverlay, wheelImage, pins and a displayed pointerGuide},
\* false)
InitDraw ==
    /\ \E styles \in DrawWheels :
          /\ segments = [i \in 1..Len(styles) |->
                            Styled(initiateSegments([j \in 1..Len(styles) |-> Null])[i],
                                   styles[i].text, styles[i].o, styles[i].a, styles[i].d,
                                   styles[i].image, styles[i].imgData)]
          /\ numSegments = Len(styles)
    /\ rotationAngle \in DrawRotations
    /\ \E mode \in DrawModes, text \in BOOLEAN, extras \in BOOLEAN,
          orientation \in {"horizontal", "diagonal"} :
          wheelOptions = [WinwheelDefaultOptions EXCEPT
                             !.centerX = Some(200), !.centerY = Some(200),
                             !.outerRadius = Some(100), !.textMargin = Some(50),
                             !.drawMode = mode, !.drawText = text,
                             !.textOrientation = orientation,
                             !.imageOverlay = extras,
                             !.wheelImage = IF extras THEN Some("wheel.png") ELSE Null,
                             !.pins = IF extras THEN Some([visible |-> TRUE, number |-> 2])
                                      ELSE Null,
                             !.pointerGuide = [display |-> extras]]
    /\ ctx \in {Null, Some(getContext)}
    /\ pointerAngle = 0
    /\ animation = Animation(EmptyBag)
    /\ stopAngleInt = Null
    /\ supplied = {}
    /\ tween = Null
    /\ lastCall = [op |-> "Winwheel", clearTheCanvas |-> TRUE, before |-> Null]
    /\ ret = Null
    /\ winwheelAlreadyDrawn = FALSE
    /\ lastSoundTriggerNumber = Null
    /\ loading = [live |-> InFlight(segments), stale |-> 0]
    /\ calls = NoCalls

\* What a draw() leaves behind: the canvas, the segments (drawImage may have
\* requested an image) with the loads that began, and ret, which tells
\* whether the call raised and what console.error reported.
Redrawn(drawn) ==
    /\ ctx' = drawn.ctx
    /\ segments' = drawn.segments
    /\ loading' = [loading EXCEPT !.live = @ \cup Requested(segments, drawn.segments)]
    /\ ret' = [error |-> drawn.error, console |-> drawn.console]

\* Winwheel.draw(clearTheCanvas).  ret tells whether the call raised and what
\* console.error reported; lastCall keeps the context the call found.  A
\* draw that keeps what is on the canvas is taken on a blank canvas only.
Draw(clearTheCanvas) ==
    /\ ctx # Null => Len(ctx[1].stack) < MaxDepth
    /\ (ctx # Null /\ ~clearTheCanvas) => ctx[1].log = <<>>
    /\ Redrawn(draw(ctx, segments, wheelOptions, rotationAngle, clearTheCanvas))
    /\ lastCall' = [op |-> "draw", clearTheCanvas |-> clearTheCanvas, before |-> ctx]
    /\ UNCHANGED <<numSegments, rotationAngle, pointerAngle, animation, stopAngleInt,
                   supplied, tween, wheelOptions>>
    /\ UNCHANGED <<winwheelAlreadyDrawn, lastSoundTriggerNumber, calls>>

\* Winwheel.clearCanvas()
ClearCanvas ==
    /\ ctx' = clearCanvas(ctx)
    /\ ret' = [error |-> Null, console |-> <<>>]
    /\ lastCall' = [op |-> "clearCanvas", clearTheCanvas |-> TRUE, before |-> ctx]
    /\ UNCHANGED <<segments, numSegments, rotationAngle, pointerAngle, animation,
                   stopAngleInt, supplied, tween, wheelOptions>>
    /\ UNCHANGED <<winwheelAlreadyDrawn, lastSoundTriggerNumber, loading, calls>>
    /\ UNCHANGED <<winwheelAlreadyDrawn, lastSoundTriggerNumber, loading, calls>>

NextDraw ==
    \/ \E clearTheCanvas \in BOOLEAN : Draw(clearTheCanvas)
    \/ ClearCanvas

SpecDraw == InitDraw /\ [][NextDraw]_vars

\* The last step was a draw on a canvas.
DrewOnCanvas == lastCall.op = "draw" /\ lastCall.before # Null

\* ... and it went through drawSegmentText.
DrewText == DrewOnCanvas /\ wheelOptions.drawText

\* What the canvas shows of the given kind ("fillText", "drawImage", ...).
Shown(op) == SelectSeq(ctx[1].log, LAMBDA entry : entry.op = op)

EffectiveOrientation(segment) == OrElse(segment.textOrientation, wheelOptions.textOrientation)
EffectiveAlignment(segment) == OrElse(segment.textAlignment, wheelOptions.textAlignment)
EffectiveDirection(segment) == OrElse(segment.textDirection, wheelOptions.textDirection)

BadOrientation(segment) ==
    /\ segment.text # <<>>
    /\ EffectiveOrientation(segment) \notin {"horizontal", "vertical", "curved"}

\* C14: drawing the text of a segment with non-empty text whose effective
\* orientation (the segment's, else the wheel's default) is not horizontal,
\* vertical or curved raises an error, in normal and in reversed direction,
\* and draws no text: a draw of a wheel holding such a segment raises,
\* drawText on that segment raises and leaves the canvas as it was, and when
\* the segment is the first one no text at all is on the canvas.
C14_InvalidOrientationRaises ==
    DrewText =>
        \A i \in 1..Len(segments) :
            BadOrientation(segments[i]) =>
                /\ ret.error = Some("Invalid orientation")
                /\ LET drawn == drawText(ctx[1], segments[i], wheelOptions, rotationAngle)
                   IN  /\ drawn.error = Some("Invalid orientation")
                       /\ drawn.ctx.log = ctx[1].log
                /\ i = 1 => Shown("fillText") = <<>> /\ Shown("strokeText") = <<>>

\* A draw has raised on a first segment whose own orientation is invalid and
\* whose direction is reversed.
C14_Witness ==
    /\ DrewText
    /\ segments[1].text # <<>>
    /\ segments[1].textOrientation = Some("diagonal")
    /\ segments[1].textDirection = Some("reversed")
    /\ ret.error = Some("Invalid orientation")
    /\ Shown("fillText") = <<>>

\* C15: an invalid textDirection (neither 'normal' nor 'reversed') or an
\* invalid drawMode (not 'code', 'image' or 'segmentImage') makes drawing
\* raise an error.
C15_InvalidDirectionOrModeRaises ==
    /\ (DrewOnCanvas /\ wheelOptions.drawMode \notin {"code", "image", "segmentImage"})
          => ret.error # Null
    /\ (DrewText /\ \E i \in 1..Len(segments) :
                       /\ segments[i].text # <<>>
                       /\ EffectiveDirection(segments[i]) \notin {"normal", "reversed"})
          => ret.error # Null

\* The 0-based indexes of the segments whose bitmap has not loaded.
RECURSIVE UnloadedFrom(_)
UnloadedFrom(i) ==
    IF i > Len(segments) THEN <<>>
    ELSE (IF Loaded(segments[i]) THEN <<>> ELSE <<i - 1>>) \o UnloadedFrom(i + 1)

\* The ids of the segments whose bitmap has loaded, in array order.
RECURSIVE LoadedFrom(_)
LoadedFrom(i) ==
    IF i > Len(segments) THEN <<>>
    ELSE (IF Loaded(segments[i]) THEN <<segments[i].id>> ELSE <<>>) \o LoadedFrom(i + 1)

\* C16: in segmentImage mode, whichever segments have a bitmap that has not
\* loaded (no image data or height 0), drawImage raises for each of them
\* (console.error reports exactly their indexes), draw itself does not raise
\* for it (it raises only when a text has an invalid orientation), and the
\* bitmaps of the loaded segments are drawn, each once, in array order.
C16_UnloadedBitmapsAreSkipped ==
    (DrewOnCanvas /\ wheelOptions.drawMode = "segmentImage") =>
        /\ ret.console = UnloadedFrom(1)
        /\ ret.error # Some("imgData is not loaded")
        /\ (~wheelOptions.drawText \/ \A i \in 1..Len(segments) : ~BadOrientation(segments[i]))
              => ret.error = Null
        /\ LET images == Shown("drawImage")
           IN  [k \in 1..Len(images) |-> images[k].what] = LoadedFrom(1)

\* A draw of a two-segment wheel whose first bitmap has not loaded and whose
\* second has: the first is reported, the second is on the canvas.
C16_Witness ==
    /\ DrewOnCanvas /\ wheelOptions.drawMode = "segmentImage"
    /\ Len(segments) = 2
    /\ ~Loaded(segments[1]) /\ Loaded(segments[2])
    /\ ret = [error |-> Null, console |-> <<0>>]
    /\ Len(Shown("drawImage")) = 1 /\ Shown("drawImage")[1].what = segments[2].id

\* C19: every save() issued during draw is matched by a restore(): when draw
\* finishes, whether it returns or raises, the context's save depth is what it
\* was before the call, and it never dropped below that in between.
C19_SaveRestoreBalanced ==
    DrewOnCanvas =>
        /\ Len(ctx[1].stack) = Len(lastCall.before[1].stack)
        /\ ctx[1].low >= Len(lastCall.before[1].stack)

\* The text entries a curved line is claimed to produce, given where the
\* entries of the line begin in what the canvas shows as text.
CurvedLineAsClaimed(shown, from, segment, line, lineTotal) ==
    LET reversed == EffectiveDirection(segment) = "reversed"
        radius == CurvedRadius(EffectiveAlignment(segment), reversed,
                               wheelOptions.innerRadius * wheelOptions.scaleFactor,
                               wheelOptions.outerRadius[1] * wheelOptions.scaleFactor,
                               wheelOptions.textMargin[1] * wheelOptions.scaleFactor,
                               wheelOptions.textFontSize * wheelOptions.scaleFactor, lineTotal)
        anglePerChar == AnglePerChar(wheelOptions.textFontSize * wheelOptions.scaleFactor, radius)
        first == MidAngle(segment) - (anglePerChar * Len(line)) \div 2 + rotationAngle
                 - (IF reversed THEN Deg(180) ELSE 0)
    IN  /\ Len(shown) >= from + Len(line) - 1
        /\ \A k \in 0..(Len(line) - 1) :
              /\ \E j \in 1..Len(line) : shown[from + k].what = <<line[j]>>
              /\ shown[from + k].rotation = first + k * anglePerChar

\* C20: for a curved text line of L > 1 characters, in normal and in reversed
\* direction, exactly L draw entries are produced, each for a character of
\* the line, consecutive entries anglePerChar apart, the first at mid-angle -
\* (anglePerChar * L)/2 plus the wheel rotation (less 180 when reversed).
\* Stated of a one-segment wheel with two curved lines drawn in code mode.
C20_CurvedLineEntries ==
    (/\ DrewText /\ ret.error = Null
     /\ wheelOptions.drawMode = "code"
     /\ Len(segments) = 1
     /\ Len(segments[1].text) = 2
     /\ EffectiveOrientation(segments[1]) = "curved")
    => LET text == segments[1].text
           shown == Shown("fillText")
       IN  /\ Len(shown) = Len(text[1]) + Len(text[2])
           /\ CurvedLineAsClaimed(shown, 1, segments[1], text[1], 2)
           /\ CurvedLineAsClaimed(shown, 1 + Len(text[1]), segments[1], text[2], 2)

----------------------------------------------------------------------------
(* Specification of the wheel's calls at their edges: wheels of no, one    *)
(* and a few segments, some of them too small for a random stop angle,     *)
(* with and without a canvas; the caller deletes segments, resizes, draws, *)
(* clears and asks for random stop angles.                                 *)

\* The sizes of the segments: automatic, and one, two and three degrees.
EdgeSizes == {Null, Some(Deg(1)), Some(Deg(2)), Some(Deg(3))}

\* The wheels: options.numSegments from 0 to 3.
EdgeWheels == UNION {[1..n -> EdgeSizes] : n \in 0..3}

\* What Math.random() returns, in quarters.
RandomQuarters == 0..3

\* new Winwheel({canvasElement or none, numSegments, segments, rotationAngle}, false)
InitEdges ==
    /\ \E sizes \in EdgeWheels :
          /\ segments = initiateSegments(sizes)
          /\ numSegments = Len(sizes)
          /\ lastCall = [op |-> "Winwheel", position |-> Null, sizes |-> sizes]
    /\ rotationAngle \in {0, Deg(400)}
    /\ \/ NoCanvas
       \/ /\ ctx = Some(getContext)
          /\ wheelOptions = [WinwheelDefaultOptions EXCEPT
                                !.centerX = Some(200), !.centerY = Some(200),
                                !.outerRadius = Some(199), !.textMargin = Some(50)]
    /\ pointerAngle = 0
    /\ animation = Animation(EmptyBag)
    /\ stopAngleInt = Null
    /\ supplied = {}
    /\ tween = Null
    /\ ret = Null
    /\ Fresh

\* Winwheel.getRandomForSegment(segmentNumber)
GetRandomForSegment(segmentNumber, random) ==
    /\ ret' = getRandomForSegment(segments, segmentNumber, random)
    /\ lastCall' = [op |-> "getRandomForSegment", position |-> segmentNumber, sizes |-> <<>>]
    /\ UNCHANGED <<segments, numSegments, rotationAngle, pointerAngle, animation,
                   stopAngleInt, supplied, tween, wheelOptions, ctx>>
    /\ UNCHANGED <<winwheelAlreadyDrawn, lastSoundTriggerNumber, loading, calls>>

NextEdges ==
    \/ \E position \in Positions(Len(segments) - 1) : DeleteSegment(position)
    \/ UpdateSegmentSizes
    \/ Draw(TRUE)
    \/ ClearCanvas
    \/ \E segmentNumber \in Positions(Len(segments)), random \in RandomQuarters :
          GetRandomForSegment(segmentNumber, random)

SpecEdges == InitEdges /\ [][NextEdges]_vars

\* C17: for every index i of an existing segment, the first (index 0)
\* included, getRandomForSegment(i) returns without raising; when the segment
\* spans more than 2 degrees the returned angle v satisfies startAngle + 1 <=
\* v <= endAngle - 1, and when it is too small an angle is still returned.
C17_RandomForEverySegment ==
    (/\ lastCall.op = "getRandomForSegment"
     /\ lastCall.position # Null
     /\ lastCall.position[1] < Len(segments))
    => LET segment == segments[lastCall.position[1] + 1]
       IN  /\ ret.error = Null
           /\ ret.value # Null
           /\ segment.endAngle - segment.startAngle > Deg(2) =>
                 /\ segment.startAngle + Deg(1) <= ret.value[1]
                 /\ ret.value[1] <= segment.endAngle - Deg(1)

\* The step is a call that meets its guard: deleteSegment on a wheel of one
\* segment, draw or clearCanvas without a context, updateSegmentSizes on an
\* empty segment list.
GuardedCall ==
    \/ lastCall'.op = "deleteSegment" /\ Len(segments) = 1
    \/ lastCall'.op \in {"draw", "clearCanvas"} /\ ctx = Null
    \/ lastCall'.op = "updateSegmentSizes" /\ segments = <<>>

\* C18: deleteSegment on a wheel holding exactly one segment, draw and
\* clearCanvas on a wheel with no drawing context, and updateSegmentSizes on
\* an empty segment list return without raising and leave the segment list,
\* numSegments, every segment's span and rotationAngle unchanged.
C18_GuardedCallsChangeNothing ==
    [][GuardedCall =>
          /\ segments' = segments
          /\ numSegments' = numSegments
          /\ rotationAngle' = rotationAngle
          /\ ret' \in {Null, [error |-> Null, console |-> <<>>]}]_vars

\* draw has returned on a wheel of one segment that has no context.
C18_Witness ==
    /\ lastCall.op = "draw"
    /\ lastCall.before = Null
    /\ ctx = Null
    /\ ret = [error |-> Null, console |-> <<>>]
    /\ Len(segments) = 1 /\ numSegments = 1
    /\ segments[1].endAngle = Deg(360)

----------------------------------------------------------------------------
(* Specification of the animation loop: a wheel of two segments is         *)
(* constructed on a canvas, undrawn, with its clearTheCanvas option, with  *)
(* or without pins, and with an animation carrying callbacks; the caller   *)
(* starts and stops the animation and the tween driver ticks and           *)
(* completes.                                                              *)

\* The animations of the loop, all spins of one turn that stop at 90
\* degrees: those that vary what a tick does to the canvas (clearTheCanvas
\* and the callbacks around the draw), and those that vary the direction,
\* the sound trigger and the callbacks that report.
LoopBags ==
    {Bag(c) : c \in
        [type : {Some(Some(SPIN_TO_STOP))},
         direction : {<<>>},
         spins : {Some(Some(1))},
         stopAngle : {Some(Some(Deg(90)))},
         clearTheCanvas : {<<>>, Some(Some(TRUE)), Some(Some(FALSE))},
         callbackBefore : {<<>>, Some(Some("before"))},
         callbackAfter : {<<>>, Some(Some("after"))},
         callbackSound : {Some(Some("sound"))},
         callbackFinished : {Some(Some("finished"))},
         soundTrigger : {<<>>}]}
    \cup
    {Bag(c) : c \in
        [type : {Some(Some(SPIN_TO_STOP))},
         direction : {<<>>, Some(Some(ANTI_CLOCKWISE))},
         spins : {Some(Some(1))},
         stopAngle : {Some(Some(Deg(90)))},
         clearTheCanvas : {Some(Some(TRUE))},
         callbackBefore : {<<>>},
         callbackAfter : {<<>>},
         callbackSound : {<<>>, Some(Some("sound"))},
         callbackFinished : {<<>>, Some(Some("finished"))},
         soundTrigger : {<<>>, Some(Some("pin"))}]}

\* new Winwheel({canvasElement, numSegments: 2, centerX, centerY, outerRadius,
\* drawText: false, clearTheCanvas, pins or none, animation}, false)
InitLoop ==
    /\ segments = initiateSegments(<<Null, Null>>)
    /\ numSegments = 2
    /\ rotationAngle = 0
    /\ pointerAngle = 0
    /\ \E bag \in LoopBags :
          /\ animation = Animation(bag)
          /\ supplied = SuppliedBy(bag)
    /\ stopAngleInt = Null
    /\ tween = Null
    /\ \E clearTheCanvas \in BOOLEAN, pins \in {Null, Some([visible |-> FALSE, number |-> 3])} :
          wheelOptions = [WinwheelDefaultOptions EXCEPT
                             !.centerX = Some(200), !.centerY = Some(200),
                             !.outerRadius = Some(100), !.textMargin = Some(50),
                             !.drawText = FALSE, !.clearTheCanvas = clearTheCanvas,
                             !.pins = pins]
    /\ ctx = Some(getContext)
    /\ lastCall = CallAnimation("Winwheel")
    /\ ret = Null
    /\ Fresh

NextLoop ==
    \/ \E random \in RandomStops : Starts <= MaxRuns /\ StartAnimation(random)
    \/ Len(ctx[1].log) <= MaxShown /\ TweenUpdate
    \/ TweenComplete
    \/ \E canCallback \in {Null, Some(TRUE), Some(FALSE)} :
          calls.finished < MaxCalls /\ StopAnimation(canCallback)

SpecLoop == InitLoop /\ [][NextLoop]_vars

\* The step is a tick: the tween driver has run winwheelAnimationLoop.
Tick == lastCall'.op = "winwheelAnimationLoop"
Ticking == lastCall.op = "winwheelAnimationLoop"

Ran(name) == \E k \in 1..Len(calls.steps) : calls.steps[k] = name

\* What was on the canvas before the step is still there after it.
Kept == /\ Len(ctx'[1].log) >= Len(ctx[1].log)
        /\ SubSeq(ctx'[1].log, 1, Len(ctx[1].log)) = ctx[1].log

\* C21: on each animation tick the canvas is cleared before the redraw when
\* the animation's clearTheCanvas option is true, is not cleared when it is
\* false, and when it is null the wheel's own clearTheCanvas option decides.
C21_TickClearsAsOptionsSay ==
    [][Tick =>
          IF OrElse(animation.clearTheCanvas, wheelOptions.clearTheCanvas)
          THEN Ran("clearCanvas")' /\ calls'.steps[1] = "clearCanvas"
          ELSE ~Ran("clearCanvas")' /\ Kept]_vars

\* The animation's clearTheCanvas alone decides: a tick clears the canvas
\* first when it is true and keeps the canvas when it is false or null.
C21_TickClearsOnlyWhenAnimationSays ==
    [][Tick =>
          IF animation.clearTheCanvas = Some(TRUE)
          THEN Ran("clearCanvas")' /\ calls'.steps[1] = "clearCanvas"
          ELSE ~Ran("clearCanvas")' /\ Kept]_vars

\* C22: for each started animation callbackFinished is invoked at most
\* once, by the natural completion or by stopAnimation unless canCallback is
\* false; no tick or completion runs once stopAnimation has killed the
\* tween; a stopAnimation after the completion, or before any animation was
\* started, does not invoke callbackFinished.
C22_FinishedAtMostOnce ==
    [][/\ calls'.finished <= 1
       /\ (tween # Null /\ tween[1].state = "killed") =>
              lastCall'.op \notin {"winwheelAnimationLoop", "winwheelStopAnimation"}
       /\ (lastCall'.op = "stopAnimation" /\ (tween = Null \/ Completed)) =>
              calls'.finished = calls.finished]_vars

\* What holds of the code: the completion and every stopAnimation whose
\* canCallback is not false invoke callbackFinished when it is set, and
\* nothing else does; a killed tween neither ticks nor completes.
C22_FinishedOnEveryStop ==
    [][/\ calls'.finished =
              IF lastCall'.op = "startAnimation" THEN 0
              ELSE IF /\ animation.callbackFinished # Null
                      /\ \/ lastCall'.op = "winwheelStopAnimation"
                         \/ /\ lastCall'.op = "stopAnimation"
                            /\ lastCall'.position # Some(FALSE)
                   THEN calls.finished + 1 ELSE calls.finished
       /\ (tween # Null /\ tween[1].state = "killed") =>
              lastCall'.op \notin {"winwheelAnimationLoop", "winwheelStopAnimation"}]_vars

\* The steps of a tick, in the order the claim gives them.
TickOrder == <<"clearCanvas", "callbackBefore", "draw", "callbackAfter", "callbackSound">>

Place(name) == CHOOSE k \in 1..Len(TickOrder) : TickOrder[k] = name

\* The entries of the canvas that a callback drew.
MarksOf(name) == SelectSeq(ctx[1].log, LAMBDA entry : entry.op = "callback" /\ entry.what = name)

\* C27: within each animation tick the steps happen in this order: optional
\* canvas clear, callbackBefore, redraw of the wheel, callbackAfter,
\* sound-trigger check; the redraw never clears the canvas, so what
\* callbackBefore drew is still on the canvas after the tick, below the
\* wheel the tick drew.
C27_TickOrder ==
    Ticking =>
        /\ \A j, k \in 1..Len(calls.steps) :
               j < k => Place(calls.steps[j]) < Place(calls.steps[k])
        /\ Ran("draw")
        /\ Ran("callbackBefore") <=> animation.callbackBefore # Null
        /\ Ran("callbackAfter") <=> animation.callbackAfter # Null
        /\ animation.callbackBefore # Null =>
               \E k \in 1..Len(ctx[1].log) :
                  /\ ctx[1].log[k] = [op |-> "callback", what |-> "callbackBefore", rotation |-> 0]
                  /\ Len(ctx[1].log) >= k + Len(segments)
                  /\ \A i \in 1..Len(segments) : ctx[1].log[k + i].op = "arc"

\* A tick has cleared the canvas, run callbackBefore, drawn the two segments,
\* run callbackAfter and called callbackSound.
C27_Witness ==
    /\ Ticking
    /\ calls.steps = TickOrder
    /\ Len(ctx[1].log) = 4
    /\ ctx[1].log[1].what = "callbackBefore"
    /\ ctx[1].log[4].what = "callbackAfter"

\* C28: over the ticks of animations with a callbackSound, callbackSound is
\* invoked on a tick exactly when the current trigger number (the indicated
\* segment number, or the current pin number when soundTrigger is 'pin')
\* differs from the number recorded before (0 before the first tick ever);
\* the recorded number is the current one after every such tick, and no
\* other step changes it, a startAnimation included.
C28_SoundOnChangeOfNumber ==
    [][/\ (Tick /\ animation.callbackSound # Null) =>
              /\ Ran("callbackSound")' <=>
                     TriggerNumber(animation, segments, wheelOptions, pointerAngle,
                                   rotationAngle') # OrElse(lastSoundTriggerNumber, 0)
              /\ lastSoundTriggerNumber' =
                     Some(TriggerNumber(animation, segments, wheelOptions, pointerAngle,
                                        rotationAngle'))
       /\ ~(Tick /\ animation.callbackSound # Null) =>
              lastSoundTriggerNumber' = lastSoundTriggerNumber]_vars

\* In a second animation a tick has found the number the first animation
\* recorded, a number other than 0, and has not called callbackSound.
C28_Witness ==
    /\ Ticking
    /\ Starts = 2
    /\ animation.callbackSound # Null
    /\ lastSoundTriggerNumber # Null /\ lastSoundTriggerNumber[1] # 0
    /\ ~Ran("callbackSound")

----------------------------------------------------------------------------
(* Specification of image loading: a wheel is constructed in segmentImage  *)
(* mode on a canvas with its first draw deferred, so every segment that    *)
(* has an image requests it; the images load in any order and the caller   *)
(* changes segment images.                                                 *)

\* Which segments are given an image, for wheels of one to three segments.
ImageWheels == UNION {[1..n -> BOOLEAN] : n \in 1..3}

\* The segment as constructed with the option image
WithImage(segment, image) == [segment EXCEPT !.image = Some(image)]

\* new Winwheel({canvasElement, drawMode: 'segmentImage', numSegments,
\* segments: [{image: 'a.png'} or {}, ...], centerX, centerY, outerRadius},
\* false): initiateDrawWheel has called renderImage on every segment.
InitImages ==
    /\ \E has \in ImageWheels :
          /\ segments = [i \in 1..Len(has) |->
                            IF has[i]
                            THEN renderImage(WithImage(
                                     initiateSegments([j \in 1..Len(has) |-> Null])[i],
                                     "a.png"))
                            ELSE initiateSegments([j \in 1..Len(has) |-> Null])[i]]
          /\ numSegments = Len(has)
    /\ rotationAngle = 0
    /\ pointerAngle = 0
    /\ animation = Animation(EmptyBag)
    /\ stopAngleInt = Null
    /\ supplied = {}
    /\ tween = Null
    /\ wheelOptions = [WinwheelDefaultOptions EXCEPT
                          !.centerX = Some(200), !.centerY = Some(200),
                          !.outerRadius = Some(100), !.textMargin = Some(50),
                          !.drawMode = DRAW_MODE.SEGMENT_IMAGE]
    /\ ctx = Some(getContext)
    /\ winwheelAlreadyDrawn = FALSE
    /\ lastSoundTriggerNumber = Null
    /\ loading = [live |-> InFlight(segments), stale |-> 0]
    /\ calls = NoCalls
    /\ lastCall = [op |-> "Winwheel", position |-> Null, sizes |-> <<>>]
    /\ ret = Null

\* wheel.segments[position].changeImage(image, imageDirection): the Image
\* the segment was loading, if any, goes on loading, replaced.
ChangeImage(position, image, imageDirection) ==
    /\ segments' = [segments EXCEPT ![position + 1] = changeImage(@, image, imageDirection)]
    /\ loading' = [live |-> loading.live \cup {segments[position + 1].id},
                   stale |-> IF segments[position + 1].id \in loading.live
                             THEN loading.stale + 1 ELSE loading.stale]
    /\ calls' = [calls EXCEPT !.steps = <<>>]
    /\ lastCall' = [op |-> "changeImage", position |-> Some(position), sizes |-> <<>>]
    /\ ret' = Null
    /\ UNCHANGED <<numSegments, rotationAngle, pointerAngle, animation, stopAngleInt,
                   supplied, tween, wheelOptions, ctx, winwheelAlreadyDrawn,
                   lastSoundTriggerNumber>>

\* What a run of winwheelLoadedImage leaves behind; ret tells whether it drew.
LoadHandled(handled) ==
    /\ winwheelAlreadyDrawn' = handled.alreadyDrawn
    /\ ctx' = handled.drawn.ctx
    /\ segments' = handled.drawn.segments
    /\ calls' = IF handled.drew
                THEN [calls EXCEPT !.steps = <<"draw">>, !.draws = @ + 1]
                ELSE [calls EXCEPT !.steps = <<>>]
    /\ ret' = Some(handled.drew)

\* The segment list once the Image of the segment with this id has loaded
Arrived(segs, id, height) ==
    [i \in 1..Len(segs) |-> IF segs[i].id = id THEN onload(segs[i], height) ELSE segs[i]]

\* The Image a segment holds finishes loading: it gets its height and its
\* onload handler, winwheelLoadedImage, runs.
ImageLoaded(id) ==
    /\ id \in loading.live
    /\ loading' = [loading EXCEPT !.live = @ \ {id}]
    /\ LoadHandled(winwheelLoadedImage(winwheelAlreadyDrawn, ctx, Arrived(segments, id, 40),
                                       wheelOptions, rotationAngle))
    /\ lastCall' = [op |-> "onload", position |-> Some(id), sizes |-> <<>>]
    /\ UNCHANGED <<numSegments, rotationAngle, pointerAngle, animation, stopAngleInt,
                   supplied, tween, wheelOptions, lastSoundTriggerNumber>>

\* An Image that changeImage has replaced finishes loading: its onload
\* handler runs all the same.
ReplacedImageLoaded ==
    /\ loading.stale > 0
    /\ loading' = [loading EXCEPT !.stale = @ - 1]
    /\ LoadHandled(winwheelLoadedImage(winwheelAlreadyDrawn, ctx, segments, wheelOptions,
                                       rotationAngle))
    /\ lastCall' = [op |-> "onload", position |-> Null, sizes |-> <<>>]
    /\ UNCHANGED <<numSegments, rotationAngle, pointerAngle, animation, stopAngleInt,
                   supplied, tween, wheelOptions, lastSoundTriggerNumber>>

NextImages ==
    \/ \E position \in 0..(Len(segments) - 1), imageDirection \in {Null, Some("S")} :
          loading.stale < MaxStale /\ ChangeImage(position, "b.png", imageDirection)
    \/ \E id \in 1..Len(segments) : ImageLoaded(id)
    \/ ReplacedImageLoaded

SpecImages == InitImages /\ [][NextImages]_vars

AllLoaded == \A i \in 1..Len(segments) : Loaded(segments[i])

\* The step is the load of the Image of a segment whose image was changed.
ChangedImageLoads ==
    /\ lastCall'.op = "onload"
    /\ lastCall'.position # Null
    /\ \E i \in 1..Len(segments) :
          segments[i].id = lastCall'.position[1] /\ segments[i].image = Some("b.png")

\* C23: after Segment.changeImage on a segment of a wheel, the wheel is
\* redrawn once the new image has finished loading, all other segment
\* images being loaded, also when the wheel had already been drawn by an
\* earlier image-load callback.
C23_ChangedImageRedraws ==
    [][(ChangedImageLoads /\ AllLoaded') =>
          /\ calls'.draws = calls.draws + 1
          /\ ret' = Some(TRUE)]_vars

\* What holds of the code: the changed image's load draws the wheel exactly
\* when no image-load callback has drawn it before.
C23_ChangedImageDrawsOnce ==
    [][(ChangedImageLoads /\ AllLoaded') =>
          (ret' = Some(TRUE) <=> ~winwheelAlreadyDrawn)]_vars

----------------------------------------------------------------------------
(* Specification of the pointer: a wheel of three segments is constructed  *)
(* on a canvas with a pointer angle, an outer radius, a rotation, with or  *)
(* without pins and a displayed pointer guide, and an animation direction; *)
(* the caller draws it and asks for the indicated segment and the current  *)
(* pin.                                                                    *)

PointerRotations == {0, Deg(45), Deg(180), Deg(359), -Deg(90), Deg(400)}

\* Pointer angles in [0, 360), in degrees; outer radii in pixels.
PointerAnglesAsked == {0, 90, 100, 180, 359}
OuterRadii == {100, 150}

\* options.pins: none, or the number of pins
PinOptions == {Null} \cup {Some([visible |-> TRUE, number |-> n]) : n \in 0..MaxPins}

\* new Winwheel({canvasElement, numSegments: 3, centerX, centerY, outerRadius,
\* pointerAngle, rotationAngle, drawText: false, pins, pointerGuide: {display},
\* animation: {direction}}, false)
InitPointer ==
    /\ segments = initiateSegments(<<Null, Null, Null>>)
    /\ numSegments = 3
    /\ rotationAngle \in PointerRotations
    /\ pointerAngle \in {Deg(a) : a \in PointerAnglesAsked}
    /\ \E bag \in {EmptyBag, Bag([direction |-> Some(Some(ANTI_CLOCKWISE))])} :
          /\ animation = Animation(bag)
          /\ supplied = SuppliedBy(bag)
    /\ stopAngleInt = Null
    /\ tween = Null
    /\ \E outerRadius \in OuterRadii, pins \in PinOptions, display \in BOOLEAN :
          wheelOptions = [WinwheelDefaultOptions EXCEPT
                             !.centerX = Some(200), !.centerY = Some(200),
                             !.outerRadius = Some(outerRadius), !.textMargin = Some(50),
                             !.drawText = FALSE, !.pins = pins,
                             !.pointerGuide = [display |-> display]]
    /\ ctx = Some(getContext)
    /\ lastCall = [op |-> "Winwheel", clearTheCanvas |-> TRUE, before |-> Null]
    /\ ret = Null
    /\ Fresh

\* Winwheel.getCurrentPinNumber()
GetCurrentPinNumber ==
    /\ ret' = Some(getCurrentPinNumber(wheelOptions.pins, animation.direction, pointerAngle,
                                       rotationAngle))
    /\ lastCall' = CallAnimation("getCurrentPinNumber")
    /\ UNCHANGED <<segments, numSegments, rotationAngle, pointerAngle, animation,
                   stopAngleInt, supplied, tween, wheelOptions, ctx>>
    /\ UNCHANGED <<winwheelAlreadyDrawn, lastSoundTriggerNumber, loading, calls>>

NextPointer ==
    \/ Draw(TRUE)
    \/ GetIndicatedSegmentNumber
    \/ GetCurrentPinNumber

SpecPointer == InitPointer /\ [][NextPointer]_vars

\* The strokes on the canvas that are the pointer guide.
GuideShown == SelectSeq(ctx[1].log, LAMBDA entry : entry.op = "stroke" /\ entry.what = "pointerGuide")

\* C24: when the pointer guide is displayed, Winwheel.draw() draws it rotated
\* by the wheel's pointerAngle option, the angle getIndicatedSegmentNumber
\* works from, for every combination of pointerAngle and outerRadius.
C24_GuideAtPointerAngle ==
    (DrewOnCanvas /\ wheelOptions.pointerGuide.display) =>
        /\ Len(GuideShown) = 1
        /\ GuideShown[1].rotation = pointerAngle

\* What holds of the code: the guide is drawn once, rotated by as many
\* degrees as the outer radius has pixels.
C24_GuideAtOuterRadius ==
    (DrewOnCanvas /\ wheelOptions.pointerGuide.display) =>
        /\ Len(GuideShown) = 1
        /\ GuideShown[1].rotation = Deg(wheelOptions.outerRadius[1])

\* C30: for a wheel with P >= 1 pins getCurrentPinNumber returns a pin index
\* in 0..P-1 for every rotationAngle, every pointerAngle in [0, 360) and
\* either animation direction; for a wheel with no pins it returns 0.
C30_PinNumberIsAnIndex ==
    lastCall.op = "getCurrentPinNumber" =>
        IF wheelOptions.pins # Null /\ wheelOptions.pins[1].number >= 1
        THEN ret[1] \in 0..(wheelOptions.pins[1].number - 1)
        ELSE ret = Some(0)

\* What holds of the code: the number is at most P, and P itself is returned
\* only when the animation turns clockwise.
C30_PinNumberUpToP ==
    lastCall.op = "getCurrentPinNumber" =>
        IF wheelOptions.pins # Null /\ wheelOptions.pins[1].number >= 1
        THEN /\ ret[1] \in 0..wheelOptions.pins[1].number
             /\ animation.direction # Some(CLOCKWISE) => ret[1] < wheelOptions.pins[1].number
        ELSE ret = Some(0)

----------------------------------------------------------------------------
(* Specification of the Pin constructor: Pins are constructed from option  *)
(* bags.                                                                   *)

\* What the caller's bag holds for each key: <<>> when the key is absent,
\* <<v>> when it has the value v, which is undefined, null or a value.
PinChoices ==
    [visible : {<<>>, Some(Some(FALSE)), Some(undefined)},
     number : {<<>>, Some(Some(20)), Some(undefined)},
     outerRadius : {<<>>, Some(Some(4))},
     fillStyle : {<<>>, Some(Null), Some(Some("red"))},
     strokeStyle : {<<>>, Some(Some("blue"))},
     lineWidth : {<<>>, Some(Some(2))},
     margin : {<<>>, Some(Some(0))},
     responsive : {<<>>, Some(Some(TRUE))},
     colour : {<<>>, Some(Some("green"))}]

\* No Pin constructed yet
InitPin ==
    /\ segments = initiateSegments(<<Null>>)
    /\ numSegments = 1
    /\ Untouched
    /\ lastCall = [op |-> "Winwheel", bag |-> EmptyBag]
    /\ ret = Null
    /\ Fresh

\* new Pin(bag); ret is the options of the Pin
NewPin(bag) ==
    /\ ret' = Pin(bag)
    /\ lastCall' = [op |-> "Pin", bag |-> bag]
    /\ UNCHANGED <<segments, numSegments, rotationAngle, pointerAngle, animation,
                   stopAngleInt, supplied, tween, wheelOptions, ctx>>
    /\ UNCHANGED <<winwheelAlreadyDrawn, lastSoundTriggerNumber, loading, calls>>

NextPin == \E choice \in PinChoices : NewPin(Bag(choice))

SpecPin == InitPin /\ [][NextPin]_vars

\* The defaults of a Pin as documented.
DocumentedPinDefaults ==
    [visible |-> Some(TRUE), number |-> Some(36), outerRadius |-> Some(3),
     fillStyle |-> Some("grey"), strokeStyle |-> Some("black"), lineWidth |-> Some(1),
     margin |-> Some(3), responsive |-> Some(FALSE)]

\* The keys the bag supplies: those it gives a value (null included).
PinSupplied(bag) == {k \in DOMAIN bag : bag[k] # undefined}

\* C25: constructing a Pin with an option bag yields options in which every
\* key the caller supplied keeps the caller's value and every other
\* documented key has its default (visible true, number 36, outerRadius 3,
\* fillStyle 'grey', strokeStyle 'black', lineWidth 1, margin 3, responsive
\* false), with no other keys.
C25_PinOptions ==
    lastCall.op = "Pin" =>
        /\ \A k \in PinSupplied(lastCall.bag) : ret[k] = lastCall.bag[k]
        /\ \A k \in (DOMAIN DocumentedPinDefaults) \ PinSupplied(lastCall.bag) :
               ret[k] = DocumentedPinDefaults[k]
        /\ DOMAIN ret = (DOMAIN lastCall.bag) \cup (DOMAIN DocumentedPinDefaults)

\* new Pin({visible: false, number: 20, outerRadius: 4}) has given these
\* three and the five other defaults.
C25_Witness ==
    /\ lastCall.op = "Pin"
    /\ DOMAIN lastCall.bag = {"visible", "number", "outerRadius"}
    /\ ret = [visible |-> Some(FALSE), number |-> Some(20), outerRadius |-> Some(4),
              fillStyle |-> Some("grey"), strokeStyle |-> Some("black"),
              lineWidth |-> Some(1), margin |-> Some(3), responsive |-> Some(FALSE)]

----------------------------------------------------------------------------
(* More of hit testing *)

\* C29: the bearing getSegmentNumberAt computes for a point is always in
\* [0, 360); with rotationAngle 0 a point straight above the wheel centre,
\* inside the ring, has bearing 0 and resolves to segment 0, the segment
\* whose span starts at angle 0, on a wheel of two or more segments.
C29_BearingBelow360 ==
    (Asked /\ lastCall.loc[1].distance > 0) =>
        /\ locationAngle(lastCall.loc[1], rotationAngle)[1] >= 0
        /\ locationAngle(lastCall.loc[1], rotationAngle)[1] < Deg(360)
        /\ (/\ rotationAngle = 0
            /\ lastCall.loc[1].bearing = 0
            /\ InRing(lastCall.loc[1])
            /\ Len(segments) >= 2) =>
               /\ locationAngle(lastCall.loc[1], rotationAngle) = Some(0)
               /\ ret = Some(0)

=============================================================================
